---------------------------- MODULE Spec2Model ----------------------------
(***************************************************************************)
(* A model of pydantic_bind's C++/pybind11 generator                       *)
(* (src/pydantic_bind/cpp_generator.py).                                   *)
(*                                                                         *)
(* Python str values are TLA+ strings, handled character by character:     *)
(* the str methods the generator calls (split, join, replace, startswith,  *)
(* in, strip, upper, sorted) are defined below as they behave in Python.   *)
(* Python sets are TLA+ sets, tuples and lists are sequences, and an       *)
(* exception is a result record with ok = FALSE that every caller passes   *)
(* on unchanged.                                                           *)
(***************************************************************************)
EXTENDS Integers, Sequences, FiniteSets, TLC

VARIABLES
    typ,        \* SpecType: the type object handed to cpp_type
    resolved,   \* SpecType: what cpp_type returned or raised
    value,      \* SpecDefault: the default value handed to cpp_default
    literal,    \* SpecDefault: what cpp_default returned or raised
    world,      \* SpecClass, Spec: the schema module and the classes it can see
    emitted,    \* SpecClass: what class_attrs and generate_class returned, per class
    outdir,     \* Spec: the output directory and its two files
    hashSeed,   \* Spec: the running interpreter's str hash order, <<>> when none runs
    runs,       \* Spec: the outcome of each generate_module call so far
    lookups     \* SpecNames: the cache of get_pybind_type, one entry per class looked up

vars == <<typ, resolved, value, literal, world, emitted, outdir, hashSeed, runs, lookups>>

(***************************************************************************)
(* Bounds of the model.                                                    *)
(***************************************************************************)
MaxNest == 2
MaxFields == 3
MaxOwn == 2
MaxRefs == 2
MaxRuns == 2

(***************************************************************************)
(* Program constants: the defaults of generate_module's parameters.        *)
(***************************************************************************)
IndentSize == 4
MaxWidth == 110

-----------------------------------------------------------------------------
(***************************************************************************)
(* Python str operations.                                                  *)
(***************************************************************************)
CharAt(s, i) == SubSeq(s, i, i)

StartsWith(s, p) == Len(p) <= Len(s) /\ SubSeq(s, 1, Len(p)) = p

EndsWith(s, p) == Len(p) <= Len(s) /\ SubSeq(s, Len(s) - Len(p) + 1, Len(s)) = p

\* sub in s
Contains(s, sub) ==
    \E i \in 0..(Len(s) - Len(sub)) : SubSeq(s, i + 1, i + Len(sub)) = sub

\* s.find(sub) as a 1-based index, 0 when sub does not occur (sub non-empty)
Find(s, sub) ==
    IF Contains(s, sub)
    THEN 1 + CHOOSE i \in 0..(Len(s) - Len(sub)) :
                 /\ SubSeq(s, i + 1, i + Len(sub)) = sub
                 /\ \A j \in 0..(i - 1) : SubSeq(s, j + 1, j + Len(sub)) # sub
    ELSE 0

RECURSIVE Split(_, _)
\* s.split(sep), sep non-empty
Split(s, sep) ==
    LET k == Find(s, sep)
    IN  IF k = 0 THEN <<s>>
        ELSE <<SubSeq(s, 1, k - 1)>> \o Split(SubSeq(s, k + Len(sep), Len(s)), sep)

RECURSIVE Join(_, _)
\* sep.join(parts)
Join(parts, sep) ==
    IF Len(parts) = 0 THEN ""
    ELSE IF Len(parts) = 1 THEN parts[1]
    ELSE parts[1] \o sep \o Join(Tail(parts), sep)

RECURSIVE Replace(_, _, _)
\* s.replace(old, new), old non-empty
Replace(s, old, new) ==
    LET k == Find(s, old)
    IN  IF k = 0 THEN s
        ELSE SubSeq(s, 1, k - 1) \o new \o Replace(SubSeq(s, k + Len(old), Len(s)), old, new)

RECURSIVE LStrip(_, _)
LStrip(s, ch) == IF Len(s) > 0 /\ CharAt(s, 1) = ch THEN LStrip(Tail(s), ch) ELSE s

RECURSIVE RStrip(_, _)
RStrip(s, ch) ==
    IF Len(s) > 0 /\ CharAt(s, Len(s)) = ch THEN RStrip(SubSeq(s, 1, Len(s) - 1), ch) ELSE s

\* s.strip(ch) for a single character ch
Strip(s, ch) == RStrip(LStrip(s, ch), ch)

LowerChars == "abcdefghijklmnopqrstuvwxyz"
UpperChars == "ABCDEFGHIJKLMNOPQRSTUVWXYZ"

UpperChar(c) ==
    IF Contains(LowerChars, c) THEN CharAt(UpperChars, Find(LowerChars, c)) ELSE c

RECURSIVE Upper(_)
\* s.upper()
Upper(s) == IF Len(s) = 0 THEN "" ELSE UpperChar(CharAt(s, 1)) \o Upper(Tail(s))

RECURSIVE Spaces(_)
\* " " * n
Spaces(n) == IF n <= 0 THEN "" ELSE " " \o Spaces(n - 1)

\* The characters of the model's strings in code point order, which is the order
\* Python compares str by.
CodePoints ==
    " \"'(),./0123456789:;<=>ABCDEFGHIJKLMNOPQRSTUVWXYZ[\\]_abcdefghijklmnopqrstuvwxyz{|}"

RECURSIVE StrLess(_, _)
\* a < b on str
StrLess(a, b) ==
    IF Len(b) = 0 THEN FALSE
    ELSE IF Len(a) = 0 THEN TRUE
    ELSE IF CharAt(a, 1) = CharAt(b, 1) THEN StrLess(Tail(a), Tail(b))
    ELSE Find(CodePoints, CharAt(a, 1)) < Find(CodePoints, CharAt(b, 1))

RECURSIVE sorted(_)
\* sorted(S) for a set of str
sorted(S) ==
    IF S = {} THEN <<>>
    ELSE LET m == CHOOSE x \in S : \A y \in S \ {x} : StrLess(x, y)
         IN  <<m>> \o sorted(S \ {m})

\* The elements of a sequence, and a sequence filtered in order
Range(seq) == {seq[i] : i \in 1..Len(seq)}

\* seq[:-1]
ButLast(seq) == SubSeq(seq, 1, Len(seq) - 1)

-----------------------------------------------------------------------------
(***************************************************************************)
(* Type objects, as typing.get_origin and typing.get_args show them.       *)
(* A class carries its __name__, its __module__ and what issubclass says   *)
(* of it; a generic alias carries its origin and its args.  An alias of    *)
(* the typing module (typing.List[int], typing.Union[int, str]) and an     *)
(* int | None are no classes to issubclass; a types.GenericAlias           *)
(* (list[int]) passes for its origin there.                                *)
(***************************************************************************)
Cls(name, module, kind) ==
    [origin |-> "None", name |-> name, module |-> module, kind |-> kind, args |-> <<>>]

Gen(origin, args) ==
    [origin |-> origin, name |-> "", module |-> "typing", kind |-> "alias", args |-> args]

GenericAlias(origin, args) ==
    [origin |-> origin, name |-> "", module |-> "types", kind |-> "generic", args |-> args]

Builtin(name) == Cls(name, "builtins", "builtin")

NoneT == Builtin("NoneType")

\* The Ellipsis object, which is not a class
EllipsisObj == Cls("Ellipsis", "builtins", "object")

\* The name typing gives the alias of an origin
TypingName(origin) ==
    CASE origin = "list" -> "List"
      [] origin = "set" -> "Set"
      [] origin = "frozenset" -> "FrozenSet"
      [] origin = "tuple" -> "Tuple"
      [] origin = "dict" -> "Dict"
      [] OTHER -> origin

\* f"{typ}"
RECURSIVE TypeRepr(_)
ArgRepr(t, none_text) ==
    IF t.origin # "None" THEN TypeRepr(t)
    ELSE IF t.kind = "object" THEN "..."
    ELSE IF t = NoneT THEN none_text
    ELSE IF t.module = "builtins" THEN t.name
    ELSE t.module \o "." \o t.name

TypeRepr(t) ==
    IF t.origin = "None"
    THEN IF t.kind = "object" THEN t.name
         ELSE IF t.module = "builtins" THEN "<class '" \o t.name \o "'>"
         ELSE "<class '" \o t.module \o "." \o t.name \o "'>"
    ELSE IF t.origin = "UnionType"
    THEN Join([i \in 1..Len(t.args) |-> ArgRepr(t.args[i], "None")], " | ")
    ELSE IF t.kind = "generic"
    THEN (IF t.origin \in {"Sequence", "Mapping"} THEN "collections.abc." ELSE "")
             \o t.origin \o "["
             \o Join([i \in 1..Len(t.args) |-> ArgRepr(t.args[i], "None")], ", ") \o "]"
    ELSE IF t.args = <<>> THEN "typing." \o TypingName(t.origin)
    ELSE IF t.origin = "Union" /\ Len(t.args) = 2 /\ t.args[2] = NoneT
    THEN "typing.Optional[" \o ArgRepr(t.args[1], "NoneType") \o "]"
    ELSE IF t.origin = "Union" /\ Len(t.args) = 2 /\ t.args[1] = NoneT
    THEN "typing.Optional[" \o ArgRepr(t.args[2], "NoneType") \o "]"
    ELSE "typing." \o TypingName(t.origin) \o "["
             \o Join([i \in 1..Len(t.args) |-> ArgRepr(t.args[i], "NoneType")], ", ") \o "]"

(***************************************************************************)
(* Results: a returned (type text, includes, usings) or a raised exception *)
(***************************************************************************)
Ok(text, includes, usings) ==
    [ok |-> TRUE, text |-> text, includes |-> includes, usings |-> usings,
     exc |-> "", msg |-> ""]

Raise(exc, msg) ==
    [ok |-> FALSE, text |-> "", includes |-> {}, usings |-> {}, exc |-> exc, msg |-> msg]

IndexError == Raise("IndexError", "tuple index out of range")

base_type_mappings(t) ==
    IF t.origin # "None" \/ t.module \notin {"builtins", "datetime"} THEN <<"", "">>
    ELSE CASE t.name = "bool" -> <<"bool", "">>
           [] t.name = "float" -> <<"double", "">>
           [] t.name = "int" -> <<"int", "">>
           [] t.name = "str" -> <<"std::string", "<string>">>
           [] t.name = "date" -> <<"std::chrono::system_clock::time_point", "<chrono>">>
           [] t.name = "datetime" -> <<"std::chrono::system_clock::time_point", "<chrono>">>
           [] t.name = "time" -> <<"std::chrono::system_clock::time_point", "<chrono>">>
           [] t.name = "timedelta" -> <<"std::chrono::duration", "<chrono>">>
           [] OTHER -> <<"", "">>

RECURSIVE cpp_type(_)
RECURSIVE resolve_args(_)

\* The loop of args_type over real_args: the resolved arguments in order, or the
\* first exception
resolve_args(real_args) ==
    IF Len(real_args) = 0 THEN [ok |-> TRUE, types |-> <<>>, includes |-> {}, usings |-> {}]
    ELSE LET r == cpp_type(real_args[1])
         IN  IF ~r.ok THEN r
             ELSE LET rest == resolve_args(Tail(real_args))
                  IN  IF ~rest.ok THEN rest
                      ELSE [ok |-> TRUE, types |-> <<r.text>> \o rest.types,
                            includes |-> r.includes \cup rest.includes,
                            usings |-> r.usings \cup rest.usings]

RECURSIVE RealArgs(_)
\* real_args: the args that are not NoneType, in order
RealArgs(args) ==
    IF Len(args) = 0 THEN <<>>
    ELSE IF args[1] = NoneT THEN RealArgs(Tail(args))
    ELSE <<args[1]>> \o RealArgs(Tail(args))

\* args_type without line 90: a single argument is wrapped in base_type too
args_type_always_wrapped(args, base_type) ==
    LET optional == \E i \in 1..Len(args) : args[i] = NoneT
        own_includes == {"<" \o Replace(base_type, "std::", "") \o ">"}
                            \cup (IF optional THEN {"<optional>"} ELSE {})
        r == resolve_args(RealArgs(args))
        args_cpp_type == base_type \o "<" \o Join(r.types, ", ") \o ">"
    IN  IF ~r.ok THEN r
        ELSE Ok(IF optional THEN "std::optional<" \o args_cpp_type \o ">" ELSE args_cpp_type,
                own_includes \cup r.includes, r.usings)

args_type(args, base_type) ==
    LET optional == \E i \in 1..Len(args) : args[i] = NoneT
        real_args == RealArgs(args)
        own_includes == {"<" \o Replace(base_type, "std::", "") \o ">"}
                            \cup (IF optional THEN {"<optional>"} ELSE {})
        r == resolve_args(real_args)
        args_cpp_type == IF Len(r.types) = 1 THEN r.types[1]
                         ELSE base_type \o "<" \o Join(r.types, ", ") \o ">"
    IN  IF ~r.ok THEN r
        ELSE Ok(IF optional THEN "std::optional<" \o args_cpp_type \o ">" ELSE args_cpp_type,
                own_includes \cup r.includes, r.usings)

\* cpp_typ, includes, usings = cpp_type(args[0]); return f"{wrapper}<{cpp_typ}>", ...
wrap_first(args, wrapper, include) ==
    IF Len(args) = 0 THEN IndexError
    ELSE LET r == cpp_type(args[1])
         IN  IF ~r.ok THEN r
             ELSE Ok(wrapper \o "<" \o r.text \o ">", r.includes \cup {include}, r.usings)

mapping_type(args) ==
    IF Len(args) = 0 THEN IndexError
    ELSE LET k == cpp_type(args[1])
             v == cpp_type(args[1])
         IN  IF ~k.ok THEN k
             ELSE IF ~v.ok THEN v
             ELSE Ok("std::unordered_map<" \o k.text \o ", " \o v.text \o ">",
                     k.includes \cup v.includes
                         \cup {CharAt("unordered_map", i) : i \in 1..Len("unordered_map")},
                     k.usings \cup v.usings)

tuple_type(args) ==
    IF \E i \in 1..Len(args) : args[i] = EllipsisObj
    THEN IF Len(args) # 2 \/ args[2] # EllipsisObj
         THEN Raise("RuntimeError", "Cannot support Ellipsis/Any as a tuple parameter type")
         ELSE wrap_first(args, "std::vector", "vector")
    ELSE args_type(args, "std::tuple")

class_type(t) ==
    Ok(t.name,
       {"\"" \o Replace(t.module, ".", "/") \o ".h\""},
       {Join(ButLast(Split(t.module, ".")) \o <<t.name>>, "::")})

cpp_type(t) ==
    LET base == base_type_mappings(t)
    IN  IF base[1] # ""
        THEN Ok(base[1], IF base[2] # "" THEN {base[2]} ELSE {}, {})
        ELSE IF t.origin = "None"
        THEN IF t.module = "builtins" /\ t.name \in {"dict", "list", "set", "tuple"}
             THEN Raise("RuntimeError",
                        "Cannot use non parameterised collection " \o TypeRepr(t) \o " as a type")
             ELSE IF t.kind = "object"
             THEN Raise("TypeError", "issubclass() arg 1 must be a class")
             ELSE IF t.kind \in {"dataclass", "model", "enum"}
             THEN class_type(t)
             ELSE Raise("RuntimeError",
                        "Can only use builtins, datetime or BaseModel-derived types, not "
                            \o TypeRepr(t))
        ELSE IF t.origin = "Optional" THEN wrap_first(t.args, "std::optional", "optional")
        ELSE IF t.origin \in {"Union", "UnionType"} THEN args_type(t.args, "std::variant")
        ELSE IF t.origin \in {"list", "Sequence"} THEN wrap_first(t.args, "std::vector", "vector")
        ELSE IF t.origin = "set" THEN wrap_first(t.args, "std::set", "set")
        ELSE IF t.origin = "tuple" THEN tuple_type(t.args)
        ELSE IF t.origin \in {"dict", "Mapping"} THEN mapping_type(t.args)
        ELSE Raise("RuntimeError", "Cannot handle type " \o TypeRepr(t))

-----------------------------------------------------------------------------
(***************************************************************************)
(* The type objects cpp_type is checked on.                                *)
(***************************************************************************)
tBool == Builtin("bool")
tInt == Builtin("int")
tFloat == Builtin("float")
tStr == Builtin("str")
tDate == Cls("date", "datetime", "builtin")
tDatetime == Cls("datetime", "datetime", "builtin")
tTime == Cls("time", "datetime", "builtin")
tTimedelta == Cls("timedelta", "datetime", "builtin")

\* Records and enums of the schema packages
tX == Cls("X", "p.b.x", "model")
tY == Cls("Y", "p.c.y", "dataclass")
tColor == Cls("Color", "p.a.m", "enum")

BareCollections == {Builtin(n) : n \in {"dict", "list", "set", "tuple"}}

\* typing.List, typing.Dict, typing.Set, typing.Tuple written without parameters
BareAliases == {Gen(o, <<>>) : o \in {"list", "dict", "set", "tuple"}}

NestAtoms == {tInt, tStr, tX, tColor, Builtin("list")}

AtomTypes ==
    {tBool, tInt, tFloat, tStr, Builtin("bytes"), tDate, tDatetime, tTime, tTimedelta, tX, tY, tColor,
     NoneT} \cup BareCollections \cup BareAliases

IsUnion(t) == t.origin \in {"Union", "UnionType"}

\* One more level of a one-parameter wrapper. typing flattens a Union of a Union,
\* so no Union is built over one.
Unary(S) ==
    {Gen(o, <<t>>) : o \in {"list", "Sequence", "set"}, t \in S}
    \cup {GenericAlias(o, <<t>>) : o \in {"list", "frozenset"}, t \in S}
    \cup {Gen("tuple", <<t, EllipsisObj>>) : t \in S}
    \cup {Gen(u, <<t, NoneT>>) : u \in {"Union", "UnionType"}, t \in {s \in S : ~IsUnion(s)}}
    \cup {Gen(u, <<NoneT, t>>) : u \in {"Union", "UnionType"}, t \in {s \in S : ~IsUnion(s)}}

Pairs(A) == {p \in A \X A : p[1] # p[2]}

Binary(A) ==
    {Gen(o, <<a, b>>) : o \in {"dict", "Mapping", "tuple"}, a \in A, b \in A}
    \cup {GenericAlias("dict", <<a, b>>) : a \in A, b \in A}
    \cup {Gen(u, <<p[1], p[2]>>) : u \in {"Union", "UnionType"}, p \in Pairs(A)}
    \cup {Gen("Union", <<p[1], p[2], NoneT>>) : p \in Pairs(A)}
    \cup {Gen("UnionType", <<p[1], NoneT, p[2]>>) : p \in Pairs(A)}
    \cup {Gen("tuple", <<EllipsisObj, a>>) : a \in A}
    \cup {Gen("tuple", <<a>>) : a \in A}

RECURSIVE TypesTo(_)
TypesTo(d) ==
    IF d = 0 THEN AtomTypes
    ELSE IF d = 1 THEN AtomTypes \cup Unary(AtomTypes) \cup Binary(NestAtoms)
    ELSE TypesTo(d - 1) \cup Unary(TypesTo(d - 1))

TypeInputs == TypesTo(MaxNest)

-----------------------------------------------------------------------------
(***************************************************************************)
(* Default values, as field_info_iter yields them.  A list, set or tuple   *)
(* holds its items in iteration order, a dict its (key, value) pairs.      *)
(***************************************************************************)
Val(k) ==
    [k |-> k, b |-> FALSE, s |-> "", i |-> 0, cls |-> "", member |-> "", mixin |-> "",
     items |-> <<>>]

MISSING == Val("MISSING")
PydanticUndefined == Val("PydanticUndefined")
VNone == Val("None")
VBool(b) == [Val("bool") EXCEPT !.b = b]
VStr(s) == [Val("str") EXCEPT !.s = s]
VInt(i) == [Val("int") EXCEPT !.i = i]
\* a finite float of one decimal digit, held as its number of tenths
VFloat(tenths) == [Val("float") EXCEPT !.i = tenths]
\* float("inf") and float("nan")
VFloatSpecial(name) == [Val("float") EXCEPT !.s = name]
\* An enum member: mixin is "" (Enum), "int" (IntEnum), "str" (class E(str, Enum)) or
\* "StrEnum"; s is the member's value when it is a str, i when it is an int
VEnum(cls, member, mixin, s, i) ==
    [Val("enum") EXCEPT !.cls = cls, !.member = member, !.mixin = mixin, !.s = s, !.i = i]
VSeq(k, items) == [Val(k) EXCEPT !.items = items]
\* any other object, s its str()
VOther(s) == [Val("other") EXCEPT !.s = s]

Digits == "0123456789"

RECURSIVE NatToStr(_)
NatToStr(n) ==
    IF n < 10 THEN CharAt(Digits, n + 1)
    ELSE NatToStr(n \div 10) \o CharAt(Digits, (n % 10) + 1)

\* str(i) for an int
IntToStr(i) == IF i < 0 THEN "-" \o NatToStr(-i) ELSE NatToStr(i)

\* str(x) for a float
FloatToStr(v) ==
    IF v.s # "" THEN v.s
    ELSE LET a == IF v.i < 0 THEN -v.i ELSE v.i
         IN  (IF v.i < 0 THEN "-" ELSE "") \o NatToStr(a \div 10) \o "." \o NatToStr(a % 10)

\* f"{value}" for an instance of str: Python 3.11 formats a member of a
\* class E(str, Enum) as Enum.__str__ does, and a StrEnum member as its value
FormatStr(v) ==
    IF v.k = "enum" THEN (IF v.mixin = "StrEnum" THEN v.s ELSE v.cls \o "." \o v.member)
    ELSE v.s

Lit(text) == [ok |-> TRUE, none |-> FALSE, text |-> text, exc |-> "", msg |-> ""]
LitNone == [ok |-> TRUE, none |-> TRUE, text |-> "", exc |-> "", msg |-> ""]
LitRaise(exc, msg) == [ok |-> FALSE, none |-> FALSE, text |-> "", exc |-> exc, msg |-> msg]

RECURSIVE cpp_default(_)
RECURSIVE default_items(_)

\* The generator expressions over the items: each item's literal in order, or the
\* first exception; join raises TypeError on an item whose literal is None
default_items(items) ==
    IF Len(items) = 0 THEN [ok |-> TRUE, texts |-> <<>>]
    ELSE LET r == cpp_default(items[1])
         IN  IF ~r.ok THEN r
             ELSE IF r.none
             THEN LitRaise("TypeError", "sequence item 0: expected str instance, NoneType found")
             ELSE LET rest == default_items(Tail(items))
                  IN  IF ~rest.ok THEN rest
                      ELSE [ok |-> TRUE, texts |-> <<r.text>> \o rest.texts]

\* f"{{{cpp_default(k)}, {cpp_default(v)}}}" for each item of a dict: an item whose
\* literal is None is formatted as the text None
RECURSIVE dict_items(_)
dict_items(items) ==
    IF Len(items) = 0 THEN [ok |-> TRUE, texts |-> <<>>]
    ELSE LET key == cpp_default(items[1][1])
             val == cpp_default(items[1][2])
         IN  IF ~key.ok THEN key
             ELSE IF ~val.ok THEN val
             ELSE LET rest == dict_items(Tail(items))
                      txt(r) == IF r.none THEN "None" ELSE r.text
                  IN  IF ~rest.ok THEN rest
                      ELSE [ok |-> TRUE,
                            texts |-> <<"{" \o txt(key) \o ", " \o txt(val) \o "}">> \o rest.texts]

cpp_default(v) ==
    IF v.k \in {"MISSING", "PydanticUndefined"} THEN LitNone
    ELSE IF v.k = "None" THEN Lit("std::nullopt")
    ELSE IF v.k = "bool" THEN Lit(IF v.b THEN "true" ELSE "false")
    ELSE IF v.k = "str" \/ (v.k = "enum" /\ v.mixin \in {"str", "StrEnum"})
    THEN Lit("\"" \o FormatStr(v) \o "\"")
    ELSE IF v.k = "enum" THEN Lit(v.cls \o "::" \o v.member)
    ELSE IF v.k = "int" THEN Lit(IntToStr(v.i))
    ELSE IF v.k = "float" THEN Lit(FloatToStr(v))
    ELSE IF v.k \in {"list", "set", "tuple"}
    THEN LET r == default_items(v.items)
         IN  IF ~r.ok THEN r ELSE Lit("{" \o Join(r.texts, ", ") \o "}")
    ELSE IF v.k = "dict"
    THEN LET r == dict_items(v.items)
         IN  IF ~r.ok THEN r ELSE Lit("{ " \o Join(r.texts, ", ") \o " }")
    ELSE LitRaise("RuntimeError", "Unsupported default value " \o v.s)

(***************************************************************************)
(* The default values cpp_default is checked on.                           *)
(***************************************************************************)
MaxStrLen == 2
MaxInt == 12

RECURSIVE StringsTo(_)
StringsTo(n) ==
    IF n = 0 THEN {""}
    ELSE StringsTo(n - 1) \cup {s \o c : s \in StringsTo(n - 1), c \in {"a", " ", "\""}}

EnumMembers ==
    {VEnum("Color", "RED", "", "", 1), VEnum("Color", "BLUE", "", "", 2),
     VEnum("Mode", "ON", "", "on", 0), VEnum("Level", "LOW", "int", "", 1),
     VEnum("Tag", "A", "str", "a", 0), VEnum("Unit", "KG", "StrEnum", "kg", 0)}

ScalarValues ==
    {MISSING, PydanticUndefined, VNone, VBool(TRUE), VBool(FALSE)}
    \cup {VStr(s) : s \in StringsTo(MaxStrLen)}
    \cup {VInt(i) : i \in (-MaxInt)..MaxInt}
    \cup {VFloat(i) : i \in (-MaxInt)..MaxInt}
    \cup {VFloatSpecial("inf"), VFloatSpecial("nan")}
    \cup EnumMembers
    \cup {VOther("b'x'")}

ItemValues == {VInt(1), VStr("a"), VBool(TRUE), VNone, MISSING, VOther("b'x'")}

ContainerValues ==
    {VSeq(k, <<>>) : k \in {"list", "set", "tuple", "dict"}}
    \cup {VSeq(k, <<a>>) : k \in {"list", "set", "tuple"}, a \in ItemValues}
    \cup {VSeq(k, <<a, b>>) : k \in {"list", "tuple"}, a \in ItemValues, b \in ItemValues}
    \cup {VSeq("dict", <<<<a, b>>>>) : a \in {VStr("a"), VInt(1)}, b \in ItemValues}
    \cup {VSeq("list", <<VSeq("tuple", <<a>>)>>) : a \in ItemValues}

DefaultInputs == ScalarValues \cup ContainerValues

NotRun == [ok |-> FALSE, text |-> "", includes |-> {}, usings |-> {}, exc |-> "", msg |-> "not run"]

IdleWorld == [target |-> "", classes |-> <<>>]

File(text) == [present |-> TRUE, text |-> text]
NoDir ==
    [exists |-> FALSE, h |-> [present |-> FALSE, text |-> ""],
     cpp |-> [present |-> FALSE, text |-> ""]]

TypeIdle == typ = NoneT /\ resolved = NotRun
DefaultIdle == value = [k |-> "unset"] /\ literal = NotRun
ClassIdle == emitted = {}
ModuleIdle == outdir = NoDir /\ hashSeed = <<>> /\ runs = <<>>

InitType ==
    /\ typ \in TypeInputs
    /\ resolved = NotRun
    /\ DefaultIdle /\ world = IdleWorld /\ ClassIdle /\ ModuleIdle /\ lookups = {}

ResolveType ==
    /\ resolved = NotRun
    /\ resolved' = cpp_type(typ)
    /\ UNCHANGED <<typ, value, literal, world, emitted, outdir, hashSeed, runs, lookups>>

SpecType == InitType /\ [][ResolveType]_vars

-----------------------------------------------------------------------------
(***************************************************************************)
(* Classes, as reflection shows them: __name__, __module__, the flavour    *)
(* (a pydantic model, a dataclass, an enum or any other class), frozen,    *)
(* __bases__ by name, the (name, type, default) triples of every field,    *)
(* inherited ones included, and an enum's (name, value) members.           *)
(***************************************************************************)
Field(name, type, default) == [name |-> name, type |-> type, default |-> default]

ClassDef(name, module, kind, frozen, bases, fields, members) ==
    [name |-> name, module |-> module, kind |-> kind, frozen |-> frozen, bases |-> bases,
     fields |-> fields, members |-> members]

RootClasses == {"PybindDataclass", "PybindBaseModel"}

\* The class of that name among the classes the schema module can see
ClassByName(n) == CHOOSE c \in Range(world.classes) : c.name = n

IsRecordClass(c) == c.kind \in {"model", "dataclass"}

\* The (name, type, default) triples of a record class, none for any other class
field_info_iter(c) == IF IsRecordClass(c) THEN c.fields ELSE <<>>

\* list.insert(position, x)
Insert(seq, position, x) ==
    IF position >= Len(seq) THEN Append(seq, x)
    ELSE SubSeq(seq, 1, position) \o <<x>> \o SubSeq(seq, position + 1, Len(seq))

no_move_types == {tBool, tFloat, tInt, tDate, tDatetime, tTime, tTimedelta}

\* move: issubclass raises TypeError on a type object that is no class, and the
\* field is then not moved
move_eligible(field_type) ==
    IF field_type \in no_move_types THEN FALSE
    ELSE IF field_type.kind \in {"alias", "object"} THEN FALSE
    ELSE field_type.kind # "enum"

\* bases: the direct bases that are records, the two root classes left out
record_bases(c) ==
    SelectSeq(c.bases, LAMBDA b : b \notin RootClasses /\ IsRecordClass(ClassByName(b)))

\* base_field_names of a class_attrs that does not look at the bases' fields
base_field_names_ignored(c) == {}

base_field_names(c) ==
    UNION {{f.name : f \in Range(field_info_iter(ClassByName(b)))} : b \in Range(record_bases(c))}

EmptyAttrs ==
    [ok |-> TRUE, exc |-> "", msg |-> "",
     names |-> <<>>, constructor_args |-> <<>>, init_args |-> <<>>,
     default_init_args |-> <<>>, needs_default_constructor |-> FALSE, base_init |-> <<>>,
     types |-> <<>>, kwargs |-> <<>>, struct_members |-> <<>>, pydantic_attrs |-> <<>>,
     all_includes |-> {"\"msgpack/msgpack.h\""}, all_usings |-> {}]

AttrsRaise(r) == [EmptyAttrs EXCEPT !.ok = FALSE, !.exc = r.exc, !.msg = r.msg]

\* position: where the field goes in every list
\* bool(default) of the str or None that cpp_default returned
Truthy(default) == ~default.none /\ default.text # ""

\* position without the test of the default: every field is appended
field_position_appending(acc, default) == Len(acc.types)

field_position(acc, default) == IF Truthy(default) THEN Len(acc.types) ELSE 0

\* names.insert that appends, whatever the position
insert_name_appending(names, position, name) == Append(names, name)

\* names.insert(position, name)
insert_name(names, position, name) == Insert(names, position, name)

\* The inserts of one pass of the loop, t and default being the resolved type and
\* the literal of the field
attrs_insert(c, acc, f, t, default, position, own) ==
    LET move == move_eligible(f.type)
        default_suffix == IF Truthy(default) THEN "=" \o default.text ELSE ""
        pydantic_def == IF c.frozen THEN ".def_readonly" ELSE ".def_readwrite"
    IN  [acc EXCEPT
            !.all_includes = @ \cup t.includes,
            !.all_usings = @ \cup t.usings,
            !.names = insert_name(@, position, f.name),
            !.needs_default_constructor = @ \/ ~Truthy(default),
            !.constructor_args = Insert(@, position, t.text \o " " \o f.name \o default_suffix),
            !.kwargs = Insert(@, position, "py::arg(\"" \o f.name \o "\")" \o default_suffix),
            !.types = Insert(@, position, t.text),
            !.init_args =
                IF own
                THEN Insert(@, position,
                            f.name \o "("
                                \o (IF move THEN "std::move(" \o f.name \o ")" ELSE f.name)
                                \o ")")
                ELSE @,
            !.default_init_args =
                IF own
                THEN Insert(@, position,
                            f.name \o "(" \o (IF Truthy(default) THEN default.text ELSE "") \o ")")
                ELSE @,
            !.struct_members =
                IF own THEN Insert(@, position, t.text \o " " \o f.name \o ";") ELSE @,
            !.pydantic_attrs =
                IF own
                THEN Insert(@, position,
                            pydantic_def \o "(\"" \o f.name \o "\", &" \o c.name \o "::"
                                \o f.name \o ")")
                ELSE @]

\* One pass of the loop over the fields, once the type is resolved and the default
\* is turned into a literal; an exception of either ends the loop
attrs_resolved(c, acc, f, t, default) ==
    IF ~t.ok THEN AttrsRaise(t)
    ELSE IF ~default.ok THEN AttrsRaise(default)
    ELSE attrs_insert(c, acc, f, t, default, field_position(acc, default),
                      f.name \notin base_field_names(c))

\* One pass of the loop over the fields
attrs_step(c, acc, f) == attrs_resolved(c, acc, f, cpp_type(f.type), cpp_default(f.default))

RECURSIVE attrs_loop(_, _, _)
\* for name, field_type, default in field_info_iter(model_class): ...
attrs_loop(c, acc, fields) ==
    IF Len(fields) = 0 \/ ~acc.ok THEN acc
    ELSE attrs_loop(c, attrs_step(c, acc, fields[1]), Tail(fields))

RECURSIVE class_attrs(_)
RECURSIVE base_inits(_)

\* base_init = {b: class_attrs(b)[0] for b in bases}, or the first exception
base_inits(bs) ==
    IF Len(bs) = 0 THEN [ok |-> TRUE, inits |-> <<>>]
    ELSE LET a == class_attrs(ClassByName(bs[1]))
         IN  IF ~a.ok THEN a
             ELSE LET rest == base_inits(Tail(bs))
                  IN  IF ~rest.ok THEN rest
                      ELSE [ok |-> TRUE,
                            inits |-> <<[base |-> bs[1], args |-> a.names]>> \o rest.inits]

\* The tuple class_attrs returns, from the lists the loop built and the base_init
attrs_result(acc, bi) ==
    IF ~acc.ok THEN acc
    ELSE IF ~bi.ok THEN AttrsRaise(bi)
    ELSE [acc EXCEPT
            !.default_init_args = IF acc.needs_default_constructor THEN @ ELSE <<>>,
            !.base_init = bi.inits]

class_attrs(c) ==
    attrs_result(attrs_loop(c, EmptyAttrs, field_info_iter(c)), base_inits(record_bases(c)))

(***************************************************************************)
(* textwrap.TextWrapper(break_long_words=False).wrap: no line for a blank  *)
(* text; else words are packed greedily into lines of at most width        *)
(* characters, indent included, a word longer than that on a line of its   *)
(* own.                                                                    *)
(***************************************************************************)
RECURSIVE wrap_lines(_, _, _, _)
wrap_lines(words, indent, subsequent_indent, width) ==
    IF Len(words) = 0 THEN <<>>
    ELSE LET fits(k) == Len(indent) + Len(Join(SubSeq(words, 1, k), " ")) <= width
             n == IF fits(1)
                  THEN CHOOSE k \in 1..Len(words) :
                           fits(k) /\ (k = Len(words) \/ ~fits(k + 1))
                  ELSE 1
         IN  <<indent \o Join(SubSeq(words, 1, n), " ")>>
                 \o wrap_lines(SubSeq(words, n + 1, Len(words)), subsequent_indent,
                               subsequent_indent, width)

wrap(text, initial_indent, subsequent_indent, width) ==
    IF \A i \in 1..Len(text) : CharAt(text, i) = " " THEN <<>>
    ELSE IF Len(initial_indent) + Len(text) <= width THEN <<initial_indent \o text>>
    ELSE wrap_lines(Split(text, " "), initial_indent, subsequent_indent, width)

NoClass == [ok |-> TRUE, none |-> TRUE, exc |-> "", msg |-> "",
            struct_def |-> "", pydantic_def |-> "", includes |-> {}, usings |-> {}]

\* The struct definition and the pybind registration of a class, a being what
\* class_attrs returned for it and indent the indentation of indent_size spaces
class_defs(cls_name, a, indent, indent_size, max_width) ==
    LET base_names == [i \in 1..Len(a.base_init) |-> a.base_init[i].base]
        bases == IF Len(a.base_init) > 0 THEN " : public " \o Join(base_names, ", ") ELSE ""
        newline == "\n"
        newline_indent == newline \o "    " \o indent
        init_indent == Spaces(indent_size + 8)
        init_wrap(text) == wrap(text, init_indent, init_indent, max_width)
        args_indent == Spaces(indent_size + 5 + Len(cls_name))
        args_wrap(text) == wrap(text, "", args_indent, max_width)
        has_default == Len(a.default_init_args) > 0
        default_constructor ==
            IF has_default
            THEN indent \o cls_name \o "() :\n"
                 \o (IF Len(a.base_init) > 0
                     THEN indent \o "        "
                          \o Join([i \in 1..Len(base_names) |-> base_names[i] \o "()"],
                                  ",        " \o newline \o indent)
                          \o "," \o newline
                     ELSE "")
                 \o Join(init_wrap(Join(a.default_init_args, ", ")), "\n")
                 \o "\n    " \o indent \o "{\n    " \o indent \o "}\n    \n    "
            ELSE ""
        default_pydantic_init ==
            IF has_default THEN indent \o ".def(py::init<>())\n" \o indent ELSE ""
        base_init_str ==
            IF Len(a.base_init) > 0
            THEN "        " \o indent
                 \o Join([i \in 1..Len(a.base_init) |->
                          a.base_init[i].base \o "(" \o Join(a.base_init[i].args, ", ") \o ")"],
                         "," \o newline \o indent)
                 \o "," \o newline
            ELSE ""
        struct_def ==
            indent \o "struct " \o cls_name \o bases \o "\n"
            \o indent \o "{\n"
            \o "    " \o default_constructor \o indent \o cls_name \o "("
            \o Join(args_wrap(Join(a.constructor_args, ", ")), newline) \o ") :\n"
            \o base_init_str \o Join(init_wrap(Join(a.init_args, ", ")), newline) \o "\n"
            \o "    " \o indent \o "{\n"
            \o "    " \o indent \o "}\n"
            \o "\n"
            \o "    " \o indent \o Join(a.struct_members, newline_indent) \o "\n"
            \o "    \n"
            \o "    " \o indent \o "MSGPACK_DEFINE("
            \o Join(args_wrap(Join(a.names, ", ")), newline) \o ");\n"
            \o indent \o "};"
        pydantic_bases ==
            IF Len(a.base_init) > 0 THEN ", " \o Join(base_names, ", ") ELSE ""
        pydantic_init ==
            Join(args_wrap(Join(a.types, ", ") \o ">(), " \o Join(a.kwargs, ", ")), "\n")
        pydantic_def ==
            indent \o "py::class_<" \o cls_name \o pydantic_bases \o ">(m, \"" \o cls_name
            \o "\")\n"
            \o "    " \o default_pydantic_init \o indent \o ".def(py::init<" \o pydantic_init
            \o ")\n"
            \o "    " \o indent \o ".def(\"to_msg_pack\", &" \o cls_name \o "::to_msg_pack)\n"
            \o "    " \o indent \o ".def_static(\"from_msg_pack\", &" \o cls_name
            \o "::from_msg_pack<" \o cls_name \o ">)\n"
            \o "    " \o indent \o Join(a.pydantic_attrs, newline_indent) \o ";"
    IN  [NoClass EXCEPT !.none = FALSE, !.struct_def = struct_def,
                        !.pydantic_def = pydantic_def, !.includes = a.all_includes,
                        !.usings = a.all_usings]

\* generate_class once class_attrs has returned a
class_of_attrs(cls_name, a, indent_size, max_width) ==
    IF ~a.ok
    THEN [NoClass EXCEPT !.ok = FALSE, !.none = FALSE, !.exc = a.exc, !.msg = a.msg]
    ELSE IF Len(a.types) = 0 THEN NoClass
    ELSE class_defs(cls_name, a, Spaces(indent_size), indent_size, max_width)

generate_class(c, indent_size, max_width) ==
    class_of_attrs(c.name, class_attrs(c), indent_size, max_width)

generate_enum(c, indent_size, max_width) ==
    LET name == c.name
        indent == Spaces(indent_size)
        args_indent == indent \o indent
        newline_indent == "\n" \o args_indent
        items == [i \in 1..Len(c.members) |->
                     c.members[i].name \o " = "
                     \o (IF c.members[i].value.k = "str" THEN c.members[i].value.s
                         ELSE IntToStr(c.members[i].value.i))]
        enum_def ==
            Join(wrap(indent \o "enum class " \o name \o " { " \o Join(items, ", ") \o " };",
                      "", args_indent, max_width), "\n")
        pydantic_items ==
            [i \in 1..Len(c.members) |->
                ".value(\"" \o c.members[i].name \o "\", "
                \o name \o "::" \o c.members[i].name \o ")"]
        pydantic_def ==
            indent \o "py::enum_<" \o name \o ">(m, \"" \o name \o "\")"
            \o newline_indent \o Join(pydantic_items, newline_indent) \o ";"
    IN  [enum_def |-> enum_def, pydantic_def |-> pydantic_def]

(***************************************************************************)
(* The iteration order of a set of str follows the str hashes, which       *)
(* CPython draws anew for every interpreter process.  hashSeed holds the   *)
(* order the running process gives the headers of HashedHeaders; the other *)
(* elements of a set follow in a fixed order.                              *)
(***************************************************************************)
HashedHeaders == <<"\"p/b/x.h\"", "\"p/c/y.h\"">>

HashOrders == {<<HashedHeaders[1], HashedHeaders[2]>>, <<HashedHeaders[2], HashedHeaders[1]>>}

\* for x in S
IterationOrder(S, seed) ==
    SelectSeq(seed, LAMBDA h : h \in S) \o sorted(S \ Range(seed))

EmptyUnit ==
    [ok |-> TRUE, exc |-> "", msg |-> "", includes |-> {}, usings |-> {},
     struct_defs |-> <<>>, pydantic_defs |-> <<>>, enum_defs |-> <<>>]

\* One pass of the loop over the classes of the module
add_enum(acc, e) ==
    [acc EXCEPT !.enum_defs = Append(@, e.enum_def),
                !.pydantic_defs = Append(@, e.pydantic_def)]

add_class(acc, g) ==
    IF ~g.ok THEN [acc EXCEPT !.ok = FALSE, !.exc = g.exc, !.msg = g.msg]
    ELSE IF g.none \/ g.struct_def = "" THEN acc
    ELSE [acc EXCEPT !.struct_defs = Append(@, g.struct_def),
                     !.pydantic_defs = Append(@, g.pydantic_def),
                     !.includes = @ \cup g.includes,
                     !.usings = @ \cup g.usings]

unit_step(acc, c, indent_size, max_width) ==
    IF c.kind = "enum" THEN add_enum(acc, generate_enum(c, indent_size, max_width))
    ELSE IF IsRecordClass(c) THEN add_class(acc, generate_class(c, indent_size, max_width))
    ELSE acc

RECURSIVE unit_loop(_, _, _, _)
unit_loop(acc, classes, indent_size, max_width) ==
    IF Len(classes) = 0 \/ ~acc.ok THEN acc
    ELSE unit_loop(unit_step(acc, classes[1], indent_size, max_width), Tail(classes),
                   indent_size, max_width)

\* The import statement derived from one include
import_of(include, indent) ==
    LET parts == Split(include, "/")
        import_parts == Insert(parts, Len(parts) - 1, "__pybind__")
        import_qualifier == Strip(Join(SubSeq(import_parts, 1, Len(import_parts) - 2), "_"), "\"")
        last == import_qualifier \o "_" \o Replace(import_parts[Len(import_parts)], ".h", "")
        imprt == Join(ButLast(import_parts) \o <<last>>, ".")
    IN  indent \o "py::module_::import(" \o imprt \o ");"

\* header_includes that keeps the header of the module itself
header_includes_with_self(includes, self_include) ==
    sorted({i \in includes : ~EndsWith(i, ".h\"")})
        \o sorted({i \in includes : EndsWith(i, ".h\"")})

\* The headers the header includes, in order: those not ending in .h" sorted, then
\* those ending in .h" sorted, the header of the module itself left out
header_includes(includes, self_include) ==
    sorted({i \in includes : ~EndsWith(i, ".h\"")})
        \o sorted({i \in includes : EndsWith(i, ".h\"") /\ i # self_include})

\* The classes the loop of generate_module visits: those declared in the module
declared_classes(w) == SelectSeq(w.classes, LAMBDA c : c.module = w.target)

\* The two texts of a module, unit being what the loop over its classes gathered
\* and indent the indentation of indent_size spaces
module_texts(module_name, unit, seed, indent) ==
    LET single_newline == "\n"
        double_newline == "\n\n"
        newline_indent == single_newline \o indent
        name_parts == Split(module_name, ".")
        module_root == name_parts[1]
        module_base_name == name_parts[Len(name_parts)]
        self_include == "\"" \o Replace(module_name, ".", "/") \o ".h\""
        include_root == Join(ButLast(name_parts), "/")
        qualified_module_name == Join(ButLast(name_parts), "_") \o "_" \o module_base_name
        namespace == Join(ButLast(name_parts), "::")
        guard == Replace(Upper(namespace), "::", "_") \o "_" \o Upper(module_base_name) \o "_H"
        imported ==
            SelectSeq(IterationOrder(unit.includes, seed),
                      LAMBDA i : StartsWith(i, "\"" \o module_root)
                                    /\ ~Contains(i, include_root))
        imports == [k \in 1..Len(imported) |-> import_of(imported[k], indent)]
        included == header_includes(unit.includes, self_include)
        includes == [k \in 1..Len(included) |-> "#include " \o included[k]]
        used ==
            SelectSeq(sorted(unit.usings),
                      LAMBDA u : Join(ButLast(Split(u, "::")), "::") # namespace)
        usings == [k \in 1..Len(used) |-> "using " \o used[k] \o ";"]
        enum_contents ==
            IF Len(unit.enum_defs) > 0
            THEN "\n" \o Join(unit.enum_defs, double_newline)
                 \o (IF Len(unit.struct_defs) > 0 THEN single_newline ELSE "")
            ELSE ""
        struct_contents ==
            IF Len(unit.struct_defs) > 0 THEN "\n" \o Join(unit.struct_defs, double_newline)
            ELSE ""
        include_contents ==
            IF Len(includes) > 0 THEN "\n" \o Join(includes, single_newline) \o "\n" ELSE ""
        using_contents ==
            IF Len(includes) > 0 THEN "\n" \o indent \o Join(usings, newline_indent) \o "\n"
            ELSE ""
        import_contents ==
            IF Len(imports) > 0 THEN "\n" \o Join(imports, single_newline) \o "\n" ELSE ""
        header_contents ==
            "\n#ifndef " \o guard \o "\n#define " \o guard \o "\n" \o include_contents
            \o "\nnamespace " \o namespace \o "\n{" \o using_contents \o enum_contents
            \o struct_contents \o "\n} // " \o namespace \o "\n\n#endif // " \o guard \o "\n"
        cpp_contents ==
            "\n#include <pybind11/pybind11.h>\n#include <pybind11/stl.h>\n"
            \o "#include <pybind11/chrono.h>\n\n#include \"" \o module_base_name \o ".h\"\n\n"
            \o "namespace py = pybind11;\nusing namespace " \o namespace \o ";\n\n\n"
            \o "PYBIND11_MODULE(" \o qualified_module_name \o ", m)\n{" \o import_contents
            \o "\n" \o Join(unit.pydantic_defs, double_newline) \o "\n}\n"
    IN  [ok |-> TRUE, exc |-> "", msg |-> "", module |-> module_name,
         header |-> header_contents, cpp |-> cpp_contents, imports |-> imports,
         includes |-> includes]

\* generate_module once the loop over the classes has ended
module_of_unit(module_name, unit, seed, indent_size) ==
    IF ~unit.ok
    THEN [ok |-> FALSE, exc |-> unit.exc, msg |-> unit.msg, module |-> module_name,
          header |-> "", cpp |-> "", imports |-> <<>>, includes |-> <<>>]
    ELSE module_texts(module_name, unit, seed, Spaces(indent_size))

\* generate_module up to the two texts it is about to write, or its exception
generate_module(w, seed, indent_size, max_width) ==
    module_of_unit(w.target, unit_loop(EmptyUnit, declared_classes(w), indent_size, max_width),
                   seed, indent_size)

-----------------------------------------------------------------------------
(***************************************************************************)
(* Properties of cpp_type (checked under SpecType).                        *)
(***************************************************************************)
TypeText(t) == cpp_type(t).text

IsMapping(t) == t.origin \in {"dict", "Mapping"} /\ Len(t.args) = 2

\* C2: for a Mapping(K, V), cpp_type returns std::unordered_map<TK, TV> with TK the
\* resolved text of K and TV the resolved text of V, and its includes and usings
\* contain those of K and those of V.
C2_MappingResolvesKeyAndValue ==
    (/\ resolved # NotRun
     /\ IsMapping(typ)
     /\ cpp_type(typ.args[1]).ok
     /\ cpp_type(typ.args[2]).ok)
    => /\ resolved.ok
       /\ resolved.text = "std::unordered_map<" \o TypeText(typ.args[1]) \o ", "
                              \o TypeText(typ.args[2]) \o ">"
       /\ cpp_type(typ.args[1]).includes \cup cpp_type(typ.args[2]).includes
              \subseteq resolved.includes
       /\ cpp_type(typ.args[1]).usings \cup cpp_type(typ.args[2]).usings
              \subseteq resolved.usings

\* The descriptor shapes of an optional: Optional[X] and Union[X, None] are
\* Union with args (X, NoneType), Union[None, X] has args (NoneType, X), X | None
\* is a UnionType.  get_origin never gives Optional itself.
IsOptionalShape(t) == IsUnion(t) /\ (\E i \in 1..Len(t.args) : t.args[i] = NoneT)

NonNoneArgs(t) == RealArgs(t.args)

AllResolve(ts) == \A i \in 1..Len(ts) : cpp_type(ts[i]).ok

\* C7: Optional[X], Union[X, None], Union[None, X] and X | None all resolve to the
\* text std::optional<TX>; with two or more variants besides None the text is
\* std::optional<std::variant<T1, ..., Tn>> over the resolved variants in order.
C7_OptionalCollapses ==
    (/\ resolved # NotRun
     /\ IsOptionalShape(typ)
     /\ Len(NonNoneArgs(typ)) >= 1
     /\ AllResolve(NonNoneArgs(typ)))
    => /\ resolved.ok
       /\ LET xs == NonNoneArgs(typ)
          IN  resolved.text =
                  IF Len(xs) = 1 THEN "std::optional<" \o TypeText(xs[1]) \o ">"
                  ELSE "std::optional<std::variant<"
                           \o Join([i \in 1..Len(xs) |-> TypeText(xs[i])], ", ") \o ">>"

\* Witness of C7: None written first, in a UnionType, around a record reference
C7_Witness ==
    /\ typ = Gen("UnionType", <<NoneT, tX>>)
    /\ resolved.ok
    /\ resolved.text = "std::optional<X>"

\* The other case of C7: two variants and None
C7_VariantReached ==
    /\ typ = Gen("Union", <<tInt, tStr, NoneT>>)
    /\ resolved.text = "std::optional<std::variant<int, std::string>>"

\* A fixed-length tuple descriptor: at least one element type, none the Ellipsis
IsFixedTuple(t) ==
    /\ t.origin = "tuple"
    /\ Len(t.args) >= 1
    /\ \A i \in 1..Len(t.args) : t.args[i] # EllipsisObj

TupleOver(ts) == "std::tuple<" \o Join([i \in 1..Len(ts) |-> TypeText(ts[i])], ", ") \o ">"

\* C12: for a fixed-length tuple of N >= 1 element types that resolve, cpp_type
\* returns std::tuple<T1, ..., TN> over the resolved texts of the elements in
\* order, for N = 1 too.
C12_FixedTuple ==
    (/\ resolved # NotRun
     /\ IsFixedTuple(typ)
     /\ AllResolve(typ.args))
    => /\ resolved.ok
       /\ resolved.text = TupleOver(typ.args)

\* The case C12 names: Tuple[int] resolves to the text of its element
C12_SingleCollapsed ==
    /\ typ = Gen("tuple", <<tInt>>)
    /\ resolved.ok
    /\ resolved.text = "int"

\* The part of C12 that holds: tuples of two or more element types
C12_PairsWrapped ==
    (/\ resolved # NotRun
     /\ IsFixedTuple(typ)
     /\ Len(typ.args) >= 2
     /\ AllResolve(typ.args))
    => /\ resolved.ok
       /\ resolved.text = TupleOver(typ.args)

\* A complete header reference: <name> or "name"
IsHeaderRef(i) ==
    /\ Len(i) >= 3
    /\ \/ StartsWith(i, "<") /\ EndsWith(i, ">")
       \/ StartsWith(i, "\"") /\ EndsWith(i, "\"")

IsVariableTuple(t) == t.origin = "tuple" /\ Len(t.args) = 2 /\ t.args[2] = EllipsisObj

\* The header of the container a descriptor stands for and the types inside it,
\* for a list, a set, a variable-length tuple, an optional and a mapping
ContainerHeader(t) ==
    CASE t.origin \in {"list", "Sequence"} /\ Len(t.args) = 1 -> <<"<vector>", t.args>>
      [] IsVariableTuple(t) -> <<"<vector>", <<t.args[1]>>>>
      [] t.origin = "set" /\ Len(t.args) = 1 -> <<"<set>", t.args>>
      [] IsOptionalShape(t) /\ Len(NonNoneArgs(t)) = 1 -> <<"<optional>", NonNoneArgs(t)>>
      [] IsMapping(t) -> <<"<unordered_map>", t.args>>
      [] OTHER -> <<"", <<>>>>

\* C19: every include cpp_type returns is a header reference in angle brackets or
\* double quotes, and a list, a set, a variable-length tuple, an optional or a
\* mapping, at any depth of nesting, has the includes of the types inside it and
\* the header of its own container, and no other.
C19_IncludesWellFormed ==
    (resolved # NotRun /\ resolved.ok)
    => /\ \A i \in resolved.includes : IsHeaderRef(i)
       /\ LET h == ContainerHeader(typ)
          IN  (h[1] # "" /\ AllResolve(h[2]))
                  => resolved.includes
                         = {h[1]} \cup UNION {cpp_type(h[2][j]).includes : j \in 1..Len(h[2])}

\* The case C19 names: List[int] gives the include vector, without brackets
C19_BareVector ==
    /\ typ = Gen("list", <<tInt>>)
    /\ resolved.ok
    /\ resolved.includes = {"vector"}

\* The part of C19 that holds: a class, or a union or fixed-length tuple of
\* classes, has header references only
C19_ClassesWellFormed ==
    (/\ resolved # NotRun /\ resolved.ok
     /\ typ.origin = "None" \/ IsUnion(typ) \/ IsFixedTuple(typ)
     /\ \A j \in 1..Len(typ.args) : typ.args[j].origin = "None")
    => \A i \in resolved.includes : IsHeaderRef(i)

InitDefault ==
    /\ value \in DefaultInputs
    /\ literal = NotRun
    /\ TypeIdle /\ world = IdleWorld /\ ClassIdle /\ ModuleIdle /\ lookups = {}

Literalize ==
    /\ literal = NotRun
    /\ literal' = cpp_default(value)
    /\ UNCHANGED <<typ, resolved, value, world, emitted, outdir, hashSeed, runs, lookups>>

SpecDefault == InitDefault /\ [][Literalize]_vars

-----------------------------------------------------------------------------
(***************************************************************************)
(* Properties of cpp_default (checked under SpecDefault).                  *)
(*                                                                         *)
(* CppRead is the value a C++ compiler reads a literal as: true and false, *)
(* a decimal integer, a decimal floating literal, a string literal (with   *)
(* its escape sequences, adjacent literals concatenated) and a qualified   *)
(* enumerator Name::Member.  Any other text is no literal.                 *)
(***************************************************************************)
NoLiteral == Val("invalid")

IsDigits(s) == Len(s) > 0 /\ \A i \in 1..Len(s) : Contains(Digits, CharAt(s, i))

RECURSIVE DigitsToNat(_)
DigitsToNat(s) ==
    IF Len(s) = 0 THEN 0
    ELSE DigitsToNat(SubSeq(s, 1, Len(s) - 1)) * 10 + (Find(Digits, CharAt(s, Len(s))) - 1)

IsIdent(s) ==
    Len(s) > 0 /\ \A i \in 1..Len(s) : Contains(LowerChars \o UpperChars \o "_", CharAt(s, i))

RECURSIVE ReadCppString(_)
\* The text after an opening quote: the characters up to the closing quote
ReadCppString(rest) ==
    IF Len(rest) = 0 THEN [ok |-> FALSE, s |-> ""]
    ELSE IF CharAt(rest, 1) = "\""
    THEN IF Len(rest) = 1 THEN [ok |-> TRUE, s |-> ""]
         ELSE IF CharAt(rest, 2) = "\"" THEN ReadCppString(SubSeq(rest, 3, Len(rest)))
         ELSE [ok |-> FALSE, s |-> ""]
    ELSE IF CharAt(rest, 1) = "\\"
    THEN IF Len(rest) < 2 THEN [ok |-> FALSE, s |-> ""]
         ELSE LET r == ReadCppString(SubSeq(rest, 3, Len(rest)))
                  c == IF CharAt(rest, 2) \in {"\"", "\\"} THEN CharAt(rest, 2) ELSE "?"
              IN  [ok |-> r.ok, s |-> c \o r.s]
    ELSE LET r == ReadCppString(Tail(rest))
         IN  [ok |-> r.ok, s |-> CharAt(rest, 1) \o r.s]

CppRead(text) ==
    LET neg == StartsWith(text, "-")
        body == IF neg THEN Tail(text) ELSE text
        sign == IF neg THEN -1 ELSE 1
        dot == Find(body, ".")
        sep == Find(text, "::")
    IN  IF text = "true" THEN VBool(TRUE)
        ELSE IF text = "false" THEN VBool(FALSE)
        ELSE IF StartsWith(text, "\"")
        THEN LET r == ReadCppString(Tail(text))
             IN  IF r.ok THEN VStr(r.s) ELSE NoLiteral
        ELSE IF IsDigits(body) THEN VInt(sign * DigitsToNat(body))
        ELSE IF dot > 0 /\ IsDigits(SubSeq(body, 1, dot - 1))
                /\ Len(body) = dot + 1 /\ IsDigits(SubSeq(body, dot + 1, Len(body)))
        THEN VFloat(sign * (DigitsToNat(SubSeq(body, 1, dot - 1)) * 10
                                + DigitsToNat(SubSeq(body, dot + 1, Len(body)))))
        ELSE IF sep > 0 /\ IsIdent(SubSeq(text, 1, sep - 1))
                /\ IsIdent(SubSeq(text, sep + 2, Len(text)))
        THEN [Val("enum") EXCEPT !.cls = SubSeq(text, 1, sep - 1),
                                 !.member = SubSeq(text, sep + 2, Len(text))]
        ELSE NoLiteral

\* Equality of a value read back with the original: an enumerator is the member of
\* that name of that enum
SameValue(read, v) ==
    IF v.k = "enum" THEN read.k = "enum" /\ read.cls = v.cls /\ read.member = v.member
    ELSE read = v

IsRoundTripKind(v) == v.k \in {"bool", "str", "int", "float", "enum"}

\* C10: for a default that is a boolean, a string, an integer, a float or an enum
\* member, the text cpp_default returns, read as a C++ literal, is the original
\* value; a boolean gives true or false.
C10_LiteralRoundTrip ==
    (literal # NotRun /\ IsRoundTripKind(value))
    => /\ literal.ok /\ ~literal.none
       /\ SameValue(CppRead(literal.text), value)
       /\ value.k = "bool" => literal.text \in {"true", "false"}

\* C17: for a default that is an enum member, cpp_default returns the qualified
\* literal EnumName::MemberName, whether the enum is a plain Enum with int or str
\* values, an IntEnum, a class deriving from str and Enum, or a StrEnum.
C17_EnumLiteral ==
    (literal # NotRun /\ value.k = "enum")
    => /\ literal.ok /\ ~literal.none
       /\ literal.text = value.cls \o "::" \o value.member

\* The case C17 names: a member of class Tag(str, Enum) becomes a string literal
C17_StrEnumQuoted ==
    /\ value = VEnum("Tag", "A", "str", "a", 0)
    /\ literal.ok
    /\ literal.text = "\"Tag.A\""

\* The part of C17 that holds: enums that do not derive from str
C17_PlainAndIntEnums ==
    (literal # NotRun /\ value.k = "enum" /\ value.mixin \in {"", "int"})
    => /\ literal.ok /\ ~literal.none
       /\ literal.text = value.cls \o "::" \o value.member

-----------------------------------------------------------------------------
(***************************************************************************)
(* The schema packages the generator is checked on.  Five records live in  *)
(* modules of their own; the module under generation imports them and      *)
(* declares its own records and enums after them.                          *)
(***************************************************************************)
LibX == ClassDef("X", "p.b.x", "model", FALSE, <<"PybindBaseModel">>,
                 <<Field("x", tInt, PydanticUndefined)>>, <<>>)
\* The classes the module under generation can see before its own: the records
\* X, Y, S, T and Z of other modules and the enum Color of the module itself
Library ==
    <<LibX,
      ClassDef("Y", "p.c.y", "dataclass", FALSE, <<"PybindDataclass">>,
               <<Field("y", tInt, MISSING)>>, <<>>),
      ClassDef("S", "p.a.s", "model", FALSE, <<"PybindBaseModel">>,
               <<Field("s", tInt, PydanticUndefined)>>, <<>>),
      ClassDef("T", "p.t", "model", FALSE, <<"PybindBaseModel">>,
               <<Field("t", tInt, PydanticUndefined)>>, <<>>),
      ClassDef("Z", "q.z", "model", FALSE, <<"PybindBaseModel">>,
               <<Field("z", tInt, PydanticUndefined)>>, <<>>),
      ClassDef("Color", "p.a.m", "enum", FALSE, <<"Enum">>, <<>>,
               <<[name |-> "RED", value |-> VInt(1)], [name |-> "BLUE", value |-> VInt(2)]>>)>>

World(target, classes) == [target |-> target, classes |-> Library \o classes]

\* The sentinel of a field without default, per flavour
NoDefault(kind) == IF kind = "dataclass" THEN MISSING ELSE PydanticUndefined

\* A field declaration to choose from: a type, and a default or the word "none"
Opt(type, default) == [type |-> type, default |-> default]
Required == Val("none")

RECURSIVE SeqsTo(_, _)
\* The sequences over S of length at most n
SeqsTo(S, n) ==
    IF n = 0 THEN {<<>>}
    ELSE SeqsTo(S, n - 1) \cup {Append(q, x) : q \in SeqsTo(S, n - 1), x \in S}

\* The fields of the chosen declarations, named from names in order
Declare(opts, names, kind) ==
    [i \in 1..Len(opts) |->
        Field(names[i], opts[i].type,
              IF opts[i].default = Required THEN NoDefault(kind) ELSE opts[i].default)]

\* dataclass refuses a field without default after one with a default
DataclassAccepts(fields) ==
    \A i, j \in 1..Len(fields) :
        (i < j /\ fields[i].default # MISSING) => fields[j].default # MISSING

FieldOpts ==
    {Opt(tInt, Required), Opt(tStr, VStr("x")), Opt(tBool, Required),
     Opt(Gen("Union", <<tStr, NoneT>>), VNone), Opt(tX, Required),
     Opt(tColor, VEnum("Color", "RED", "", "", 1)), Opt(Gen("list", <<tInt>>), Required),
     Opt(GenericAlias("list", <<tInt>>), Required)}

FieldNames == <<"a", "b", "c", "d", "e", "f">>

\* One model R with any fields of FieldOpts
FieldWorlds ==
    {World("p.a.m",
           <<ClassDef("R", "p.a.m", "model", FALSE, <<"PybindBaseModel">>,
                      Declare(opts, FieldNames, "model"), <<>>)>>) :
        opts \in SeqsTo(FieldOpts, MaxFields)}

\* Reflection lists a class's fields base by base, the last base first, then its
\* own; a name met again keeps its place and takes the later declaration
RECURSIVE MergeFields(_, _)
MergeFields(have, more) ==
    IF Len(more) = 0 THEN have
    ELSE LET f == more[1]
             at == {i \in 1..Len(have) : have[i].name = f.name}
         IN  MergeFields(IF at = {} THEN Append(have, f)
                         ELSE [have EXCEPT ![CHOOSE i \in at : TRUE] = f],
                         Tail(more))

BaseFieldOpts ==
    {<<>>,
     <<Field("id", tInt, Required)>>,
     <<Field("id", tInt, VInt(1))>>,
     <<Field("id", tInt, Required), Field("n", tStr, VStr("x"))>>,
     <<Field("n", tStr, VStr("x")), Field("id", tInt, Required)>>}

SecondBaseOpts ==
    {<<>>, <<Field("id", tInt, Required)>>, <<Field("k", tStr, Required)>>}

OwnOpts == {Opt(tInt, Required), Opt(tStr, VStr("x"))}

Sentinel(fields, kind) ==
    [i \in 1..Len(fields) |->
        IF fields[i].default = Required THEN [fields[i] EXCEPT !.default = NoDefault(kind)]
        ELSE fields[i]]

\* B, optionally C, and D(B) or D(B, C) with its own fields and, when override is
\* set, its own declaration of id with a default
InheritWorld(kind, frozen, bf, second, cf, own, override) ==
    LET root == IF kind = "dataclass" THEN "PybindDataclass" ELSE "PybindBaseModel"
        bfields == Sentinel(bf, kind)
        cfields == Sentinel(cf, kind)
        ownfields == Declare(own, <<"u", "v", "w">>, kind)
                         \o (IF override THEN <<Field("id", tInt, VInt(7))>> ELSE <<>>)
        B == ClassDef("B", "p.a.m", kind, frozen, <<root>>, bfields, <<>>)
        C == ClassDef("C", "p.a.m", kind, frozen, <<root>>, cfields, <<>>)
        D == ClassDef("D", "p.a.m", kind, frozen,
                      IF second THEN <<"B", "C">> ELSE <<"B">>,
                      MergeFields(MergeFields(IF second THEN cfields ELSE <<>>, bfields),
                                  ownfields),
                      <<>>)
    IN  World("p.a.m", IF second THEN <<B, C, D>> ELSE <<B, D>>)

InheritWorlds ==
    {w \in {InheritWorld(kind, frozen, bf, second, cf, own, override) :
                kind \in {"model", "dataclass"}, frozen \in BOOLEAN, bf \in BaseFieldOpts,
                second \in BOOLEAN, cf \in SecondBaseOpts, own \in SeqsTo(OwnOpts, MaxOwn),
                override \in BOOLEAN} :
        \A c \in Range(w.classes) : c.kind = "dataclass" => DataclassAccepts(c.fields)}

\* A record of this module deriving from a record of another module
ForeignBaseWorlds ==
    {World("p.a.m",
           <<ClassDef("D", "p.a.m", "model", FALSE, <<"X">>,
                      MergeFields(LibX.fields, Declare(own, <<"u", "v", "w">>, "model")),
                      <<>>)>>) :
        own \in SeqsTo(OwnOpts, MaxOwn)}

ClassWorlds == FieldWorlds \cup InheritWorlds \cup ForeignBaseWorlds

InitClass ==
    /\ world \in ClassWorlds
    /\ emitted = {}
    /\ TypeIdle /\ DefaultIdle /\ ModuleIdle /\ lookups = {}

\* generate_class on one class declared in the module
GenerateClass ==
    \E c \in Range(declared_classes(world)) :
        /\ IsRecordClass(c)
        /\ \A e \in emitted : e.cls # c.name
        /\ emitted' = emitted \cup {[cls |-> c.name, attrs |-> class_attrs(c),
                                     out |-> generate_class(c, IndentSize, MaxWidth)]}
        /\ UNCHANGED <<typ, resolved, value, literal, world, outdir, hashSeed, runs, lookups>>

SpecClass == InitClass /\ [][GenerateClass]_vars

-----------------------------------------------------------------------------
(***************************************************************************)
(* Properties of class_attrs and generate_class (checked under SpecClass). *)
(***************************************************************************)
HasDefault(f) == f.default \notin {MISSING, PydanticUndefined}

Reverse(seq) == [i \in 1..Len(seq) |-> seq[Len(seq) + 1 - i]]

FieldNamesOf(fields) == [i \in 1..Len(fields) |-> fields[i].name]

\* The fields of a class as reflection lists them, declaration order
Declared(cls) == field_info_iter(ClassByName(cls))

\* No-default fields in reverse declaration order, then the defaulted ones in
\* declaration order
ReverseThenDeclared(fields) ==
    Reverse(FieldNamesOf(SelectSeq(fields, LAMBDA f : ~HasDefault(f))))
        \o FieldNamesOf(SelectSeq(fields, HasDefault))

\* The name of a constructor parameter "type name" or "type name=default"
ParamName(arg) ==
    LET decl == Split(arg, "=")[1]
        words == Split(decl, " ")
    IN  words[Len(words)]

ParamHasDefault(arg) == Contains(arg, "=")

\* A struct text with the continuation lines of its wrapped constructor signature
\* joined up again
Unwrapped(cls, struct_def) ==
    Replace(struct_def, "\n" \o Spaces(IndentSize + 5 + Len(cls)), " ")

\* The struct text spells its full constructor with these parameters in this order
EmitsParams(cls, struct_def, params) ==
    Contains(Unwrapped(cls, struct_def),
             "\n" \o Spaces(IndentSize + 4) \o cls \o "(" \o Join(params, ", ") \o ") :")

Generated(e) == e.attrs.ok /\ e.out.ok /\ ~e.out.none

\* C1: the constructor parameters of every generated record are its fields without
\* default in the reverse of their declaration order, followed by its fields with a
\* default in declaration order, in class_attrs' lists and in the emitted struct
\* text alike; no parameter without default follows one with a default.
C1_ConstructorOrder ==
    \A e \in emitted :
        Generated(e) =>
            /\ e.attrs.names = ReverseThenDeclared(Declared(e.cls))
            /\ [i \in 1..Len(e.attrs.constructor_args) |->
                    ParamName(e.attrs.constructor_args[i])] = e.attrs.names
            /\ EmitsParams(e.cls, e.out.struct_def, e.attrs.constructor_args)
            /\ \A i, j \in 1..Len(e.attrs.constructor_args) :
                   (i < j /\ ParamHasDefault(e.attrs.constructor_args[i]))
                       => ParamHasDefault(e.attrs.constructor_args[j])

\* Witness of C1: fields a, b = "x", c give the parameters c, a, b
C1_Witness ==
    \E e \in emitted :
        /\ e.cls = "R"
        /\ FieldNamesOf(Declared("R")) = <<"a", "b", "c">>
        /\ HasDefault(Declared("R")[2])
        /\ ~HasDefault(Declared("R")[1]) /\ ~HasDefault(Declared("R")[3])
        /\ Generated(e)
        /\ e.attrs.names = <<"c", "a", "b">>
        /\ EmitsParams("R", e.out.struct_def, <<"bool c", "int a", "std::string b=\"x\"">>)

\* The struct text holds the zero-argument constructor
EmitsDefaultConstructor(cls, struct_def) ==
    Contains(struct_def, "\n" \o Spaces(IndentSize + 4) \o cls \o "() :\n")

EmitsDefaultInit(pydantic_def) == Contains(pydantic_def, ".def(py::init<>())")

\* C4: every generated record with a field, own or inherited, that has no default
\* gets the zero-argument constructor and its py::init<>() registration, and a
\* record whose fields all have defaults gets neither.
C4_DefaultConstructor ==
    \A e \in emitted :
        Generated(e) =>
            LET lacks == \E i \in 1..Len(Declared(e.cls)) : ~HasDefault(Declared(e.cls)[i])
            IN  /\ EmitsDefaultConstructor(e.cls, e.out.struct_def) = lacks
                /\ EmitsDefaultInit(e.out.pydantic_def) = lacks

\* The case C4 names: D(B) declares nothing and inherits id, which has no default
C4_DerivedWithoutOwnFields ==
    \E e \in emitted :
        /\ e.cls = "D" /\ Generated(e)
        /\ ClassByName("D").bases = <<"B">>
        /\ FieldNamesOf(Declared("D")) = <<"id">> /\ ~HasDefault(Declared("D")[1])
        /\ ~EmitsDefaultConstructor("D", e.out.struct_def)

\* The names the base b of a class provides
Provided(b) == {f.name : f \in Range(Declared(b))}

\* C5: in a record with record bases, a field whose name a base provides is no
\* member, has no initializer and no accessor registration of the record's own,
\* yet is a parameter of the full constructor and is passed on in the call of that
\* base's constructor, in class_attrs' lists and in the emitted text alike.
C5_InheritedFieldsThreaded ==
    \A e \in emitted :
        Generated(e) =>
            LET bases == record_bases(ClassByName(e.cls))
                a == e.attrs
            IN  /\ Len(a.base_init) = Len(bases)
                /\ \A i \in 1..Len(bases) : \A n \in Provided(bases[i]) :
                       /\ \A m \in Range(a.struct_members) : ~EndsWith(m, " " \o n \o ";")
                       /\ \A m \in Range(a.init_args) : ~StartsWith(m, n \o "(")
                       /\ \A m \in Range(a.pydantic_attrs) : ~Contains(m, "\"" \o n \o "\"")
                       /\ ~Contains(e.out.struct_def, " " \o n \o ";")
                       /\ ~Contains(e.out.pydantic_def, "(\"" \o n \o "\", &")
                       /\ \E k \in 1..Len(a.constructor_args) :
                              ParamName(a.constructor_args[k]) = n
                       /\ a.base_init[i].base = bases[i]
                       /\ n \in Range(a.base_init[i].args)
                       /\ Contains(e.out.struct_def,
                                   bases[i] \o "(" \o Join(a.base_init[i].args, ", ") \o "),\n")

\* Witness of C5: D(B) with its own u inherits id from B
C5_Witness ==
    \E e \in emitted :
        /\ e.cls = "D" /\ Generated(e)
        /\ record_bases(ClassByName("D")) = <<"B">>
        /\ Provided("B") = {"id"}
        /\ e.attrs.struct_members = <<"int u;">>
        /\ e.attrs.constructor_args = <<"int u", "int id">>
        /\ e.attrs.base_init = <<[base |-> "B", args |-> <<"id">>]>>
        /\ Contains(e.out.struct_def, "D(int u, int id) :\n            B(id),\n")

\* The small scalar and temporal kinds
ScalarOrTemporal == {tBool, tInt, tFloat, tDate, tDatetime, tTime, tTimedelta}

IsTrivialType(t) == t \in ScalarOrTemporal \/ t.kind = "enum"

\* The fields of a class that no record base of it provides
OwnFields(cls) ==
    SelectSeq(Declared(cls), LAMBDA f : f.name \notin base_field_names(ClassByName(cls)))

MoveInit(n) == n \o "(std::move(" \o n \o "))"
CopyInit(n) == n \o "(" \o n \o ")"

\* C11: in the full constructor of every generated record, an own field of a
\* scalar, temporal or enum type is initialized by copy, name(name), and an own
\* field of any other type (a string, a record, an optional, a union, a list, a
\* set, a tuple, a mapping) by name(std::move(name)), in class_attrs' init_args
\* and in the emitted struct text alike.
C11_MoveNonTrivial ==
    \A e \in emitted :
        Generated(e) =>
            \A f \in Range(OwnFields(e.cls)) :
                LET init == IF IsTrivialType(f.type) THEN CopyInit(f.name) ELSE MoveInit(f.name)
                IN  /\ init \in Range(e.attrs.init_args)
                    /\ Contains(e.out.struct_def, " " \o init)

\* The case C11 names: a field of a typing alias (Optional[str], List[int]) is
\* copied
C11_AliasCopied ==
    \E e \in emitted :
        /\ Generated(e)
        /\ \E f \in Range(OwnFields(e.cls)) :
               /\ f.type \in {Gen("Union", <<tStr, NoneT>>), Gen("list", <<tInt>>)}
               /\ CopyInit(f.name) \in Range(e.attrs.init_args)
               /\ Contains(e.out.struct_def, " " \o CopyInit(f.name))

\* The part of C11 that holds: the claim's rule for every own field whose type is
\* a class or a types.GenericAlias
C11_ClassesMoved ==
    \A e \in emitted :
        Generated(e) =>
            \A f \in Range(OwnFields(e.cls)) :
                f.type.kind # "alias" =>
                    (IF IsTrivialType(f.type) THEN CopyInit(f.name) ELSE MoveInit(f.name))
                        \in Range(e.attrs.init_args)

\* The names the serialization directive of a struct text lists, in order
MsgpackNames(cls, struct_def) ==
    LET text == Unwrapped(cls, struct_def)
        rest == SubSeq(text, Find(text, "MSGPACK_DEFINE(") + Len("MSGPACK_DEFINE("), Len(text))
    IN  Split(SubSeq(rest, 1, Find(rest, ");") - 1), ", ")

\* C14: the MSGPACK_DEFINE of every generated record lists the names of all its
\* fields, own and inherited, each once, in the order of the parameters of the
\* full constructor the struct text spells.
C14_SerializationOrder ==
    \A e \in emitted :
        Generated(e) =>
            LET listed == MsgpackNames(e.cls, e.out.struct_def)
            IN  /\ Len(Split(e.out.struct_def, "MSGPACK_DEFINE(")) = 2
                /\ EmitsParams(e.cls, e.out.struct_def, e.attrs.constructor_args)
                /\ listed = [i \in 1..Len(e.attrs.constructor_args) |->
                                ParamName(e.attrs.constructor_args[i])]
                /\ Range(listed) = {f.name : f \in Range(Declared(e.cls))}
                /\ Cardinality(Range(listed)) = Len(listed)

\* Witness of C14: D(B) declares u and then v = "x" and inherits id without
\* default; the parameters and the directive are both u, id, v
C14_Witness ==
    \E e \in emitted :
        /\ e.cls = "D" /\ Generated(e)
        /\ record_bases(ClassByName("D")) = <<"B">>
        /\ FieldNamesOf(Declared("D")) = <<"id", "u", "v">>
        /\ EmitsParams("D", e.out.struct_def, <<"int u", "int id", "std::string v=\"x\"">>)
        /\ MsgpackNames("D", e.out.struct_def) = <<"u", "id", "v">>

\* The bases the first line of a struct text names after " : public "
StructBases(struct_def) ==
    LET line == Split(struct_def, "\n")[1]
        parts == Split(line, " : public ")
    IN  IF Len(parts) < 2 THEN {} ELSE Range(Split(parts[2], ", "))

\* The bases the py::class_<Cls, Base, ...> of a registration text names
RegisteredBases(pydantic_def) ==
    LET line == Split(pydantic_def, "\n")[1]
        classes == Split(Split(Split(line, "py::class_<")[2], ">(m, ")[1], ", ")
    IN  Range(Tail(classes))

\* The record classes whose constructor a struct text of class cls calls
ChainedBases(cls, struct_def) ==
    {c.name : c \in {d \in Range(world.classes) :
                        /\ IsRecordClass(d) /\ d.name # cls
                        /\ Contains(struct_def, " " \o d.name \o "(")}}

\* C20: every base that a generated record names, in the inheritance list of its
\* struct, in the base-constructor calls of its constructors or in its py::class_,
\* is a record with at least one field; a base without fields, for which no struct
\* is emitted, is named nowhere.
C20_BasesCarryFields ==
    \A e \in emitted :
        Generated(e) =>
            \A b \in StructBases(e.out.struct_def) \cup RegisteredBases(e.out.pydantic_def)
                        \cup ChainedBases(e.cls, e.out.struct_def)
                        \cup {i.base : i \in Range(e.attrs.base_init)} :
                Len(Declared(b)) > 0

\* The case C20 names: B has no fields and D(B) declares u; the struct of D
\* derives from B and calls B()
C20_EmptyBaseNamed ==
    \E e \in emitted :
        /\ e.cls = "D" /\ Generated(e)
        /\ record_bases(ClassByName("D")) = <<"B">>
        /\ Declared("B") = <<>>
        /\ StructBases(e.out.struct_def) = {"B"}
        /\ RegisteredBases(e.out.pydantic_def) = {"B"}
        /\ Contains(e.out.struct_def, " B(),\n")

\* The part of C20 that holds: the bases named are the direct record bases of the
\* class, the same in all three places
C20_BasesAreRecordBases ==
    \A e \in emitted :
        Generated(e) =>
            LET bases == Range(record_bases(ClassByName(e.cls)))
            IN  /\ StructBases(e.out.struct_def) = bases
                /\ RegisteredBases(e.out.pydantic_def) = bases
                /\ ChainedBases(e.cls, e.out.struct_def) = bases

-----------------------------------------------------------------------------
(***************************************************************************)
(* The modules generate_module is checked on.                              *)
(***************************************************************************)
Targets == {"p.a.m", "p.m", "m"}

RefOpts ==
    {Opt(tX, Required), Opt(tY, Required), Opt(Cls("S", "p.a.s", "model"), Required),
     Opt(Cls("T", "p.t", "model"), Required), Opt(Cls("Z", "q.z", "model"), Required),
     Opt(tStr, VStr("x")), Opt(Gen("list", <<tX>>), Required),
     Opt(Builtin("list"), Required), Opt(Gen("tuple", <<>>), Required),
     Opt(Gen("list", <<>>), Required),
     Opt(GenericAlias("tuple", <<EllipsisObj, tInt>>), Required),
     Opt(GenericAlias("list", <<Builtin("set")>>), Required), Opt(tInt, VOther("b'x'"))}

\* One model R whose fields refer to records of other modules, or fail to resolve
RefWorlds ==
    {World(target,
           <<ClassDef("R", target, "model", FALSE, <<"PybindBaseModel">>,
                      Declare(opts, FieldNames, "model"), <<>>)>>) :
        target \in Targets, opts \in SeqsTo(RefOpts, MaxRefs)}

EmptyRecord == ClassDef("E", "p.a.m", "model", FALSE, <<"PybindBaseModel">>, <<>>, <<>>)

\* A record E without fields: alone, as the base of D, and as the type of a field
EmptyRecordWorlds ==
    {World("p.a.m", <<EmptyRecord>>),
     World("p.a.m",
           <<EmptyRecord,
             ClassDef("D", "p.a.m", "model", FALSE, <<"E">>,
                      <<Field("u", tInt, PydanticUndefined)>>, <<>>)>>),
     World("p.a.m",
           <<EmptyRecord,
             ClassDef("R", "p.a.m", "model", FALSE, <<"PybindBaseModel">>,
                      <<Field("a", Cls("E", "p.a.m", "model"), PydanticUndefined)>>, <<>>)>>),
     World("p.a.m",
           <<EmptyRecord,
             ClassDef("R", "p.a.m", "model", FALSE, <<"PybindBaseModel">>,
                      <<Field("a", tInt, PydanticUndefined)>>, <<>>)>>)}

\* An enum without members
EmptyEnum == ClassDef("Em", "p.a.m", "enum", FALSE, <<"Enum">>, <<>>, <<>>)

\* Enums of the module itself: one without members, alone and next to a record,
\* and the enum Color as the type of a field next to a record of another module
EnumWorlds ==
    {World("p.a.m", <<EmptyEnum>>),
     World("p.a.m",
           <<EmptyEnum,
             ClassDef("R", "p.a.m", "model", FALSE, <<"PybindBaseModel">>,
                      <<Field("a", tInt, PydanticUndefined)>>, <<>>)>>),
     World("p.a.m",
           <<ClassDef("R", "p.a.m", "model", FALSE, <<"PybindBaseModel">>,
                      <<Field("a", tColor, PydanticUndefined), Field("b", tX, PydanticUndefined),
                        Field("c", tStr, VStr("x"))>>, <<>>)>>)}

ModuleWorlds == RefWorlds \cup EmptyRecordWorlds \cup ForeignBaseWorlds \cup EnumWorlds

\* The output directory before the run: missing, or holding files of an earlier run
OutDirs == {NoDir, [exists |-> TRUE, h |-> File("old header"), cpp |-> File("old source")]}

Init ==
    /\ world \in ModuleWorlds
    /\ outdir \in OutDirs
    /\ hashSeed = <<>>
    /\ runs = <<>>
    /\ TypeIdle /\ DefaultIdle /\ ClassIdle /\ lookups = {}

\* A Python interpreter starts: its str hashes are drawn
StartProcess ==
    /\ hashSeed = <<>>
    /\ Len(runs) < MaxRuns
    /\ hashSeed' \in HashOrders
    /\ UNCHANGED <<typ, resolved, value, literal, world, emitted, outdir, runs, lookups>>

\* The interpreter exits
ExitProcess ==
    /\ hashSeed # <<>>
    /\ Len(runs) < MaxRuns
    /\ hashSeed' = <<>>
    /\ UNCHANGED <<typ, resolved, value, literal, world, emitted, outdir, runs, lookups>>

\* generate_module(module_name, output_dir): the directory is made first, the two
\* files are written last, and an exception before that leaves them as they were
GenerateModule ==
    /\ hashSeed # <<>>
    /\ Len(runs) < MaxRuns
    /\ runs' = Append(runs, generate_module(world, hashSeed, IndentSize, MaxWidth))
    /\ LET g == runs'[Len(runs')]
       IN  outdir' = IF g.ok
                     THEN [exists |-> TRUE, h |-> File(g.header), cpp |-> File(g.cpp)]
                     ELSE [outdir EXCEPT !.exists = TRUE]
    /\ UNCHANGED <<typ, resolved, value, literal, world, emitted, hashSeed, lookups>>

Next == StartProcess \/ ExitProcess \/ GenerateModule

Spec == Init /\ [][Next]_vars


(***************************************************************************)
(* The names of a binding module.  generate_module names the entry point   *)
(* of the module it writes and the modules it imports; at run time         *)
(* get_pybind_type derives the name of the binding module of a class from  *)
(* the module that declares the class.                                     *)
(***************************************************************************)

\* get_pybind_type(typ): the binding module it looks up in sys.modules, or imports,
\* for the class, and the attribute it reads from it
get_pybind_type(c) ==
    LET package_parts == Split(c.module, ".")
        pybind_module_name == Join(package_parts, "_")
        pybind_module == Join(ButLast(package_parts) \o <<"__pybind__", pybind_module_name>>, ".")
    IN  [typ |-> c.name, module |-> c.module, pybind_module |-> pybind_module]

\* Schema modules of one, two and three components: p (the package itself), p.t,
\* p.b.x and p.a.m, whose record R refers to a class of each of the others
NameModules == {"p", "p.t", "p.b.x", "p.a.m"}

NameWorlds ==
    {World(m, <<ClassDef("P", "p", "model", FALSE, <<"PybindBaseModel">>,
                         <<Field("n", tInt, PydanticUndefined)>>, <<>>),
                ClassDef("R", "p.a.m", "model", FALSE, <<"PybindBaseModel">>,
                         <<Field("a", Cls("P", "p", "model"), PydanticUndefined),
                           Field("b", Cls("T", "p.t", "model"), PydanticUndefined),
                           Field("c", tX, PydanticUndefined)>>, <<>>)>>) :
        m \in NameModules}

InitNames ==
    /\ world \in NameWorlds
    /\ outdir = NoDir
    /\ hashSeed = <<>>
    /\ runs = <<>>
    /\ lookups = {}
    /\ TypeIdle /\ DefaultIdle /\ ClassIdle

\* python -m pydantic_bind.cpp_generator --module <module> --output_dir <a new directory>;
\* the headers R includes iterate in any order
StartModuleProcess ==
    /\ hashSeed = <<>>
    /\ Len(runs) < MaxRuns
    /\ LET headers == {"\"" \o Replace(m, ".", "/") \o ".h\"" : m \in NameModules \ {"p.a.m"}}
       IN  hashSeed' \in {seed \in [1..Cardinality(headers) -> headers] :
                             \A i, j \in DOMAIN seed : seed[i] = seed[j] => i = j}
    /\ \E m \in NameModules : world' = [world EXCEPT !.target = m]
    /\ outdir' = NoDir
    /\ UNCHANGED <<typ, resolved, value, literal, emitted, runs, lookups>>

\* get_pybind_type(typ) for a class not in its cache yet
GetPybindType ==
    /\ \E c \in Range(world.classes) :
          /\ c.module \in NameModules
          /\ get_pybind_type(c) \notin lookups
          /\ lookups' = lookups \cup {get_pybind_type(c)}
    /\ UNCHANGED <<typ, resolved, value, literal, world, emitted, outdir, hashSeed, runs>>

NextNames == StartModuleProcess \/ ExitProcess \/ GenerateModule \/ GetPybindType

SpecNames == InitNames /\ [][NextNames]_vars

-----------------------------------------------------------------------------
(***************************************************************************)
(* Properties of generate_module (checked under Spec).                     *)
(***************************************************************************)
\* The records the module under generation declares
DeclaredRecords == {c \in Range(declared_classes(world)) : IsRecordClass(c)}

RECURSIVE SubTypes(_)
\* A type object and every type object inside it
SubTypes(t) == {t} \cup UNION {SubTypes(t.args[i]) : i \in 1..Len(t.args)}

\* The records and enums a field type refers to
ReferencedClasses(t) ==
    {r \in SubTypes(t) : r.origin = "None" /\ r.kind \in {"model", "dataclass", "enum"}}

TopPackage(module) == Split(module, ".")[1]

\* The import of the binding module of a schema module: its package, __pybind__,
\* and its components joined by underscores
ImportStatement(module) ==
    "py::module_::import(\"" \o Join(ButLast(Split(module, ".")), ".") \o ".__pybind__."
        \o Replace(module, ".", "_") \o "\");"

\* How often sub occurs in s
CountOf(s, sub) == Len(Split(s, sub)) - 1

Registrations == {"py::class_<", "py::enum_<"}

\* The modules of the same top-level package, other than the target, that the
\* fields of the declared records refer to
ReferencedModules ==
    {r.module : r \in UNION {ReferencedClasses(f.type) :
                                f \in UNION {Range(c.fields) : c \in DeclaredRecords}}}
        \cap {m \in {c.module : c \in Range(world.classes)} :
                 m # world.target /\ TopPackage(m) = TopPackage(world.target)}

\* C3: the source text of a generated module holds, for every other module of the
\* same top-level package that a field of its records refers to, exactly one
\* py::module_::import statement, inside the entry point and before every
\* registration of the module's own classes.
C3_ImportsReferencedModules ==
    \A k \in 1..Len(runs) :
        runs[k].ok =>
            \A m \in ReferencedModules :
                /\ CountOf(runs[k].cpp, ImportStatement(m)) = 1
                /\ Find(runs[k].cpp, "PYBIND11_MODULE(") < Find(runs[k].cpp, ImportStatement(m))
                /\ \A reg \in Registrations :
                       \/ Find(runs[k].cpp, reg) = 0
                       \/ Find(runs[k].cpp, ImportStatement(m)) < Find(runs[k].cpp, reg)

\* The case C3 names: a field of a record of p.a.m refers to a record of the
\* sibling module p.a.s, and the source text imports nothing
C3_SiblingNotImported ==
    /\ world.target = "p.a.m"
    /\ ReferencedModules = {"p.a.s"}
    /\ Len(runs) > 0 /\ runs[1].ok
    /\ ~Contains(runs[1].cpp, "py::module_::import(")

IdentChars == LowerChars \o UpperChars \o Digits \o "_"

\* The identifier name occurs in text
Mentions(text, name) ==
    \E i \in 1..(Len(text) - Len(name) + 1) :
        /\ SubSeq(text, i, i + Len(name) - 1) = name
        /\ i = 1 \/ ~Contains(IdentChars, CharAt(text, i - 1))
        /\ i + Len(name) > Len(text) \/ ~Contains(IdentChars, CharAt(text, i + Len(name)))

\* C6: a record without fields, own or inherited, gets nothing from generate_class,
\* and a generated module names it neither in the header nor in the source.
C6_EmptyRecordAbsent ==
    \A c \in DeclaredRecords :
        Len(c.fields) = 0 =>
            /\ generate_class(c, IndentSize, MaxWidth) = NoClass
            /\ \A k \in 1..Len(runs) :
                   runs[k].ok => /\ ~Mentions(runs[k].header, c.name)
                                 /\ ~Mentions(runs[k].cpp, c.name)

\* The part of C6 that holds: a module of the empty record alone names it nowhere
C6_AloneAbsent ==
    (DeclaredRecords = {EmptyRecord} /\ Len(runs) > 0)
    => /\ runs[1].ok
       /\ ~Mentions(runs[1].header, EmptyRecord.name)
       /\ ~Mentions(runs[1].cpp, EmptyRecord.name)

\* C8: two runs of generate_module on the unchanged module, in one process or in
\* two, give the same header text and the same source text.
C8_RunsIdentical ==
    \A j, k \in 1..Len(runs) :
        (runs[j].ok /\ runs[k].ok)
        => /\ runs[j].header = runs[k].header
           /\ runs[j].cpp = runs[k].cpp

\* The case C8 names: two modules referred to, two runs, the imports swapped
C8_ImportsSwapped ==
    /\ Len(runs) = 2 /\ runs[1].ok /\ runs[2].ok
    /\ Len(runs[1].imports) = 2
    /\ runs[2].imports = <<runs[1].imports[2], runs[1].imports[1]>>

\* Written without parameters: the builtin collection classes and the bare aliases
Unparameterized(t) == t \in BareCollections \cup BareAliases

\* The message names a type that does not resolve or a default without literal
NamesOffender(msg) ==
    \E c \in DeclaredRecords : \E f \in Range(c.fields) :
        \/ \E t \in SubTypes(f.type) : ~cpp_type(t).ok /\ Contains(msg, TypeRepr(t))
        \/ ~cpp_default(f.default).ok /\ Contains(msg, f.default.s)

\* C9: a run of generate_module on a module with a field whose type is or holds
\* an unparameterized dict, list, set or tuple fails; and every run that fails on a
\* field's type or default raises an error that names the type or the value, and
\* leaves the .h and the .cpp file of the directory as they were.
C9_FailsFast ==
    [][runs' # runs =>
          LET g == runs'[Len(runs')]
          IN  /\ (\E c \in DeclaredRecords : \E f \in Range(c.fields) :
                      \E t \in SubTypes(f.type) : Unparameterized(t))
                  => ~g.ok
              /\ ~g.ok => /\ NamesOffender(g.msg)
                          /\ outdir'.h = outdir.h
                          /\ outdir'.cpp = outdir.cpp]_vars

\* The part of C9 that holds: a failed run leaves the two files as they were
C9_NoPartialOutput ==
    [][(runs' # runs /\ ~runs'[Len(runs')].ok)
          => (outdir'.h = outdir.h /\ outdir'.cpp = outdir.cpp)]_vars

\* The case C9 names: a field of the bare typing.Tuple, and the files are written
C9_BareTupleWritten ==
    /\ \E c \in DeclaredRecords : \E f \in Range(c.fields) : f.type = Gen("tuple", <<>>)
    /\ Len(runs) > 0 /\ runs[1].ok
    /\ outdir.h = File(runs[1].header)
    /\ Contains(runs[1].header, "std::tuple<> ")

\* The operands of the #include directives of a header text, in order
IncludeOperands(header) ==
    LET lines == SelectSeq(Split(header, "\n"), LAMBDA l : StartsWith(l, "#include "))
    IN  [i \in 1..Len(lines) |-> SubSeq(lines[i], Len("#include ") + 1, Len(lines[i]))]

\* A local relative include is written in double quotes, any other is external
IsQuoted(i) == StartsWith(i, "\"")

SelfHeader == "\"" \o Replace(world.target, ".", "/") \o ".h\""

\* The headers the emitted records of the module need: the serialization header
\* and what the types of their fields resolve to
NeededHeaders ==
    UNION {{"\"msgpack/msgpack.h\""} \cup UNION {cpp_type(f.type).includes : f \in Range(c.fields)} :
              c \in {d \in DeclaredRecords : Len(d.fields) > 0}}

\* C13: the #include directives of a generated header name every header the
\* emitted records need except the module's own, none of them twice, the external
\* ones before the local ones in double quotes, and each of the two groups in
\* lexical order.
C13_HeaderIncludes ==
    \A k \in 1..Len(runs) :
        runs[k].ok =>
            LET L == IncludeOperands(runs[k].header)
            IN  /\ Range(L) = NeededHeaders \ {SelfHeader}
                /\ \A i, j \in 1..Len(L) :
                       i < j => /\ L[i] # L[j]
                                /\ IsQuoted(L[i]) => IsQuoted(L[j])
                                /\ IsQuoted(L[i]) = IsQuoted(L[j]) => StrLess(L[i], L[j])

\* Witness of C13: a record referring to its own module, to a record of another
\* module and to str gets three includes, without the header of the module itself
C13_Witness ==
    /\ Len(runs) > 0 /\ runs[1].ok
    /\ SelfHeader \in NeededHeaders
    /\ IncludeOperands(runs[1].header) = <<"<string>", "\"msgpack/msgpack.h\"", "\"p/b/x.h\"">>

\* The source text opens its entry point under this name
EntryPointNamed(cpp, name) == Contains(cpp, "\nPYBIND11_MODULE(" \o name \o ", m)\n")

\* C15: the PYBIND11_MODULE name in the source text of a generated module is the
\* module's dotted path with every dot replaced by an underscore, nothing before
\* and nothing after it, for a path of one component as for a longer one.
C15_EntryPointName ==
    \A k \in 1..Len(runs) :
        runs[k].ok =>
            /\ CountOf(runs[k].cpp, "PYBIND11_MODULE(") = 1
            /\ EntryPointNamed(runs[k].cpp, Replace(world.target, ".", "_"))

\* The case C15 names: the module m of no package gets the entry point _m
C15_TopLevelModule ==
    /\ world.target = "m"
    /\ Len(runs) > 0 /\ runs[1].ok
    /\ EntryPointNamed(runs[1].cpp, "_m")

\* The part of C15 that holds: modules inside a package
C15_PackagedModules ==
    \A k \in 1..Len(runs) :
        (runs[k].ok /\ Len(Split(world.target, ".")) >= 2) =>
            EntryPointNamed(runs[k].cpp, Replace(world.target, ".", "_"))

\* The enums without members that the module under generation declares
EmptyEnums == {c \in Range(declared_classes(world)) : c.kind = "enum" /\ c.members = <<>>}

\* C16: an enum without members makes no run fail and leaves no trace: the header
\* holds no enum definition for it and the source no py::enum_ registration.
C16_EmptyEnumSkipped ==
    \A k \in 1..Len(runs) :
        \A c \in EmptyEnums :
            /\ runs[k].ok
            /\ ~Contains(runs[k].header, "enum class " \o c.name)
            /\ ~Contains(runs[k].cpp, "py::enum_<" \o c.name \o ">")

\* The case C16 names: the enum Em without members is defined and registered
C16_EmptyEnumEmitted ==
    /\ EmptyEnum \in EmptyEnums
    /\ Len(runs) > 0 /\ runs[1].ok
    /\ Contains(runs[1].header, "enum class Em {  };")
    /\ Contains(runs[1].cpp, "py::enum_<Em>(m, \"Em\")\n        ;")

\* The #include directive of the header of a schema module
IncludeDirective(module) == "#include \"" \o Replace(module, ".", "/") \o ".h\""

\* The schema modules other than the one under generation
OtherModules == {c.module : c \in Range(world.classes)} \ {world.target}

\* C18: whenever the source text of a generated module imports two other modules
\* whose headers the header includes, the two import statements stand in the order
\* of the two #include directives.
C18_ImportsInHeaderOrder ==
    \A k \in 1..Len(runs) :
        runs[k].ok =>
            \A m1, m2 \in OtherModules :
                (/\ Contains(runs[k].cpp, ImportStatement(m1))
                 /\ Contains(runs[k].cpp, ImportStatement(m2))
                 /\ Contains(runs[k].header, IncludeDirective(m1))
                 /\ Contains(runs[k].header, IncludeDirective(m2))
                 /\ Find(runs[k].header, IncludeDirective(m1))
                        < Find(runs[k].header, IncludeDirective(m2)))
                => Find(runs[k].cpp, ImportStatement(m1)) < Find(runs[k].cpp, ImportStatement(m2))

\* The case C18 names: the header includes p/b/x.h before p/c/y.h and the source
\* imports the binding module of p.c.y before that of p.b.x
C18_OrderReversed ==
    /\ Len(runs) > 0 /\ runs[1].ok
    /\ Find(runs[1].header, IncludeDirective("p.b.x")) > 0
    /\ Find(runs[1].header, IncludeDirective("p.b.x"))
           < Find(runs[1].header, IncludeDirective("p.c.y"))
    /\ Find(runs[1].cpp, ImportStatement("p.c.y")) > 0
    /\ Find(runs[1].cpp, ImportStatement("p.c.y")) < Find(runs[1].cpp, ImportStatement("p.b.x"))

\* The modules, other than the one under generation, that declare a record base
\* with fields of an emitted record of the module
ForeignBaseModules ==
    {ClassByName(b).module :
        b \in UNION {Range(record_bases(c)) : c \in {d \in DeclaredRecords : Len(d.fields) > 0}}}
        \cap {m \in OtherModules : Len(SelectSeq(world.classes,
                                         LAMBDA c : c.module = m /\ IsRecordClass(c)
                                                       /\ Len(c.fields) > 0)) > 0}

\* C21: for every emitted record deriving from a record with fields of another
\* module, the header includes the header of that module, and the source imports
\* its binding module when it belongs to the same top-level package, whether or
\* not a field of the record has the base as its type.
C21_ForeignBaseIncluded ==
    \A k \in 1..Len(runs) :
        runs[k].ok =>
            \A m \in ForeignBaseModules :
                /\ Contains(runs[k].header, IncludeDirective(m))
                /\ TopPackage(m) = TopPackage(world.target)
                       => Contains(runs[k].cpp, ImportStatement(m))

\* The case C21 names: D derives from X of p.b.x and declares u; the header
\* defines struct D : public X and includes only the serialization header
C21_BaseHeaderMissing ==
    /\ ForeignBaseModules = {"p.b.x"}
    /\ Len(runs) > 0 /\ runs[1].ok
    /\ Contains(runs[1].header, "struct D : public X\n")
    /\ IncludeOperands(runs[1].header) = <<"\"msgpack/msgpack.h\"">>
    /\ ~Contains(runs[1].cpp, "py::module_::import(")


\* The name a source text gives its entry point, PYBIND11_MODULE(<name>, m)
EntryPointOf(cpp) == Split(Split(cpp, "PYBIND11_MODULE(")[2], ", m)")[1]

\* The text after the last dot of a dotted name
LastComponent(name) == Split(name, ".")[Len(Split(name, "."))]

\* The module name an import statement passes, without the quotes of its literal
ImportedModule(statement) ==
    LET arg == Split(Split(statement, "py::module_::import(")[2], ");")[1]
    IN  IF Len(arg) >= 2 /\ StartsWith(arg, "\"") /\ EndsWith(arg, "\"")
        THEN SubSeq(arg, 2, Len(arg) - 1)
        ELSE arg

\* The import statements of a run that come from the header of a module
ImportsReferringTo(run, module) ==
    {s \in Range(run.imports) :
        s = import_of("\"" \o Replace(module, ".", "/") \o ".h\"", Spaces(IndentSize))}

\* The three names of the binding module of a schema module agree, wherever the
\* state holds two of them
NamesAgreeFor(module) ==
    /\ \A k \in 1..Len(runs) : \A l \in lookups :
          runs[k].ok /\ runs[k].module = module /\ l.module = module
              => EntryPointOf(runs[k].cpp) = LastComponent(l.pybind_module)
    /\ \A k \in 1..Len(runs) : \A l \in lookups :
          runs[k].ok /\ l.module = module
              => \A s \in ImportsReferringTo(runs[k], module) :
                     LastComponent(ImportedModule(s)) = LastComponent(l.pybind_module)
    /\ \A j, k \in 1..Len(runs) :
          runs[j].ok /\ runs[j].module = module /\ runs[k].ok
              => \A s \in ImportsReferringTo(runs[k], module) :
                     LastComponent(ImportedModule(s)) = EntryPointOf(runs[j].cpp)

\* C22: for every schema module of one or more components, the entry-point name
\* generate_module emits for it, the last component of the module name another
\* module's import statement passes for it, and the last component of the binding
\* module get_pybind_type derives for a class declared in it are the same name.
C22_NamesAgree == \A module \in NameModules : NamesAgreeFor(module)

\* The three names agree for every module inside a package
C22_PackagedNamesAgree ==
    \A module \in {m \in NameModules : Len(Split(m, ".")) > 1} : NamesAgreeFor(module)

\* The case C22 names, with all three names in the state, for the modules p.t and
\* p.b.x: both were generated, p.a.m imports both, and a class of each was looked up
C22_PackagedNamesSeen ==
    /\ \E j, k \in 1..Len(runs) :
          /\ runs[j].ok /\ runs[j].module = "p.b.x" /\ EntryPointOf(runs[j].cpp) = "p_b_x"
          /\ runs[k].ok /\ runs[k].module = "p.a.m"
          /\ {ImportedModule(s) : s \in ImportsReferringTo(runs[k], "p.b.x")}
                 = {"p.b.__pybind__.p_b_x"}
    /\ \E l \in lookups : l.module = "p.b.x" /\ l.pybind_module = "p.b.__pybind__.p_b_x"

\* The module p of one component: its entry point is _p, p.a.m imports
\* __pybind__._"p" for it, and get_pybind_type looks up __pybind__.p
C22_OneComponentDisagrees ==
    /\ \E j, k \in 1..Len(runs) :
          /\ runs[j].ok /\ runs[j].module = "p" /\ EntryPointOf(runs[j].cpp) = "_p"
          /\ runs[k].ok /\ runs[k].module = "p.a.m"
          /\ {ImportedModule(s) : s \in ImportsReferringTo(runs[k], "p")}
                 = {"__pybind__._\"p\""}
    /\ \E l \in lookups : l.module = "p" /\ l.pybind_module = "__pybind__.p"

=============================================================================
